---- MODULE Spec2Model ----
(***************************************************************************)
(* Model of openapi-from-chrome/scripts/generate_openapi.py: the           *)
(* aggregation loop of generate_openapi_spec over a list of captured       *)
(* network exchanges, with parse_network_request, normalize_path and       *)
(* infer_schema_from_value as operators.                                   *)
(*                                                                         *)
(* Python values are records with one field named after the Python type:   *)
(*   [str |-> <<"a","b">>]  a str, as the tuple of its characters          *)
(*   [int |-> 3]  [bool |-> TRUE]  [float |-> 15] (tenths)  [null |-> TRUE]*)
(*   [list |-> <<v1, v2>>]                                                 *)
(*   [dict |-> << <<key, value>>, ... >>]  insertion-ordered, keys are     *)
(*                                          character tuples               *)
(*                                                                         *)
(* A value the code computes once and reads several times is bound as the  *)
(* element of a one-element set, Only({F(v) : v \in {e}}), so that TLC     *)
(* evaluates e once.                                                       *)
(***************************************************************************)
EXTENDS Integers, Sequences, FiniteSets, TLC

(* the element of a one-element set *)
Only(S) == CHOOSE x \in S : TRUE

----------------------------------------------------------------------------
(* Strings *)

DigitChars == {"0", "1", "2", "3", "4", "5", "6", "7", "8", "9"}

(* U+00B2 SUPERSCRIPT TWO: str.isdigit() accepts it, int() rejects it *)
SuperTwo == "sup2"

UpperChars == <<"A","B","C","D","E","F","G","H","I","J","K","L","M",
                "N","O","P","Q","R","S","T","U","V","W","X","Y","Z">>

LowerChars == <<"a","b","c","d","e","f","g","h","i","j","k","l","m",
                "n","o","p","q","r","s","t","u","v","w","x","y","z">>

LowerChar(c) ==
    IF \E k \in 1..26 : UpperChars[k] = c
    THEN LowerChars[CHOOSE k \in 1..26 : UpperChars[k] = c]
    ELSE c

UpperChar(c) ==
    IF \E k \in 1..26 : LowerChars[k] = c
    THEN UpperChars[CHOOSE k \in 1..26 : LowerChars[k] = c]
    ELSE c

(* the text as it is, letter case kept *)
CaseKept(s) == s

(* str.lower(), str.upper() *)
Lower(s) == [k \in 1..Len(s) |-> LowerChar(s[k])]

Upper(s) == [k \in 1..Len(s) |-> UpperChar(s[k])]

(* str.find(c) + 1: position of the first c in s, 0 when there is none *)
Find(s, c) ==
    IF \E k \in 1..Len(s) : s[k] = c
    THEN CHOOSE k \in 1..Len(s) : s[k] = c /\ \A j \in 1..(k - 1) : s[j] # c
    ELSE 0

(* sub in s *)
Contains(sub, s) ==
    \E k \in 1..(Len(s) - Len(sub) + 1) : SubSeq(s, k, k + Len(sub) - 1) = sub

(* s.split(sep) for a one-character separator *)
RECURSIVE Split(_, _)
Split(s, sep) ==
    LET k == Find(s, sep)
    IN  IF k = 0
        THEN <<s>>
        ELSE <<SubSeq(s, 1, k - 1)>> \o Split(SubSeq(s, k + 1, Len(s)), sep)

(* s.split(sep, 1) *)
Split1(s, sep) ==
    LET k == Find(s, sep)
    IN  IF k = 0
        THEN <<s>>
        ELSE <<SubSeq(s, 1, k - 1), SubSeq(s, k + 1, Len(s))>>

(* sep.join(parts) *)
RECURSIVE Join(_, _)
Join(parts, sep) ==
    IF Len(parts) = 0 THEN <<>>
    ELSE IF Len(parts) = 1 THEN parts[1]
    ELSE parts[1] \o <<sep>> \o Join(Tail(parts), sep)

(* str.isdigit() *)
IsDigit(part) ==
    /\ Len(part) > 0
    /\ \A k \in 1..Len(part) : part[k] \in DigitChars \cup {SuperTwo}

(* int(part) raises ValueError unless every character is a decimal digit *)
IntRaises(part) == \E k \in 1..Len(part) : part[k] \notin DigitChars

DigitVal(c) ==
    CASE c = "0" -> 0 [] c = "1" -> 1 [] c = "2" -> 2 [] c = "3" -> 3
      [] c = "4" -> 4 [] c = "5" -> 5 [] c = "6" -> 6 [] c = "7" -> 7
      [] c = "8" -> 8 [] c = "9" -> 9

RECURSIVE IntOf(_)
IntOf(part) ==
    IF Len(part) = 0 THEN 0
    ELSE 10 * IntOf(SubSeq(part, 1, Len(part) - 1)) + DigitVal(part[Len(part)])

DigitChar(d) ==
    CASE d = 0 -> "0" [] d = 1 -> "1" [] d = 2 -> "2" [] d = 3 -> "3"
      [] d = 4 -> "4" [] d = 5 -> "5" [] d = 6 -> "6" [] d = 7 -> "7"
      [] d = 8 -> "8" [] d = 9 -> "9"

(* str(n) for a non-negative int *)
RECURSIVE StrOfInt(_)
StrOfInt(n) ==
    IF n < 10 THEN <<DigitChar(n)>>
    ELSE StrOfInt(n \div 10) \o <<DigitChar(n % 10)>>

----------------------------------------------------------------------------
(* Python values *)

None == [null |-> TRUE]

Str(chars) == [str |-> chars]

IsStr(v) == DOMAIN v = {"str"}

IsDict(v) == DOMAIN v = {"dict"}

EmptyDict == [dict |-> <<>>]

(* bool(v) *)
Truthy(v) ==
    CASE DOMAIN v = {"null"} -> FALSE
      [] DOMAIN v = {"bool"} -> v.bool
      [] DOMAIN v = {"int"} -> v.int # 0
      [] DOMAIN v = {"float"} -> v.float # 0
      [] DOMAIN v = {"str"} -> Len(v.str) > 0
      [] DOMAIN v = {"list"} -> Len(v.list) > 0
      [] DOMAIN v = {"dict"} -> Len(v.dict) > 0

HasKey(d, key) == \E k \in 1..Len(d.dict) : d.dict[k][1] = key

(* d.get(key, default) on a dict *)
Get(d, key, default) ==
    IF HasKey(d, key)
    THEN d.dict[CHOOSE k \in 1..Len(d.dict) : d.dict[k][1] = key][2]
    ELSE default

(* Dictionary keys and string literals of the source *)
KUrl == <<"u", "r", "l">>

KMethod == <<"m", "e", "t", "h", "o", "d">>

KRequestHeaders == <<"r", "e", "q", "u", "e", "s", "t", "H", "e", "a", "d", "e", "r", "s">>

KPostData == <<"p", "o", "s", "t", "D", "a", "t", "a">>

KResponse == <<"r", "e", "s", "p", "o", "n", "s", "e">>

KStatus == <<"s", "t", "a", "t", "u", "s">>

KBody == <<"b", "o", "d", "y">>

KHeaders == <<"h", "e", "a", "d", "e", "r", "s">>

KContentType == <<"c", "o", "n", "t", "e", "n", "t", "-", "t", "y", "p", "e">>

SGet == <<"G", "E", "T">>

SAppJson == <<"a", "p", "p", "l", "i", "c", "a", "t", "i", "o", "n", "/", "j", "s", "o", "n">>

SId == <<"i", "d">>

S200 == <<"2", "0", "0">>

(* d[key] = value on an insertion-ordered dict: a present key keeps its place *)
DictSet(d, key, value) ==
    IF HasKey(d, key)
    THEN [dict |-> [k \in 1..Len(d.dict) |->
                      IF d.dict[k][1] = key THEN <<key, value>> ELSE d.dict[k]]]
    ELSE [dict |-> Append(d.dict, <<key, value>>)]

(* list(d.values()) *)
Values(d) == [k \in 1..Len(d.dict) |-> d.dict[k][2]]

----------------------------------------------------------------------------
(* urllib.parse.urlparse and parse_qs, as far as the code uses them:        *)
(* scheme, netloc, path and query of a URL without params or escapes        *)

SchemeChars ==
    {UpperChars[k] : k \in 1..26} \cup {LowerChars[k] : k \in 1..26}
        \cup DigitChars \cup {"+", "-", "."}

IsAlpha(c) == \E k \in 1..26 : UpperChars[k] = c \/ LowerChars[k] = c

(* position of the first character of s that is in cs, Len(s) + 1 if none *)
FindAny(s, cs) ==
    IF \E k \in 1..Len(s) : s[k] \in cs
    THEN CHOOSE k \in 1..Len(s) : s[k] \in cs /\ \A j \in 1..(k - 1) : s[j] \notin cs
    ELSE Len(s) + 1

urlparse(url) ==
    LET i == Find(url, ":")
        hasScheme == /\ i > 1
                     /\ IsAlpha(url[1])
                     /\ \A k \in 1..(i - 1) : url[k] \in SchemeChars
        scheme == IF hasScheme THEN Lower(SubSeq(url, 1, i - 1)) ELSE <<>>
        rest == IF hasScheme THEN SubSeq(url, i + 1, Len(url)) ELSE url
        hasNetloc == Len(rest) >= 2 /\ rest[1] = "/" /\ rest[2] = "/"
        after == SubSeq(rest, 3, Len(rest))
        cut == FindAny(after, {"/", "?", "#"})
        netloc == IF hasNetloc THEN SubSeq(after, 1, cut - 1) ELSE <<>>
        tail == IF hasNetloc THEN SubSeq(after, cut, Len(after)) ELSE rest
        pq == Split1(Split1(tail, "#")[1], "?")
    IN  [raises |-> hasNetloc /\ (("[" \in {netloc[k] : k \in 1..Len(netloc)})
                                   # ("]" \in {netloc[k] : k \in 1..Len(netloc)})),
         scheme |-> scheme,
         netloc |-> netloc,
         path   |-> pq[1],
         query  |-> IF Len(pq) = 2 THEN pq[2] ELSE <<>>]

(* unquote of a query field: "+" is a space *)
PlusToSpace(s) == [k \in 1..Len(s) |-> IF s[k] = "+" THEN " " ELSE s[k]]

(* parse_qs(query): fields without "=" or with an empty value are left out  *)
(* (keep_blank_values is False); a key maps to the list of its values       *)
RECURSIVE ParseQsFields(_, _)
ParseQsFields(fields, acc) ==
    IF Len(fields) = 0 THEN acc
    ELSE LET nv == Split1(fields[1], "=")
             name == PlusToSpace(nv[1])
         IN  IF Len(nv) # 2 \/ Len(nv[2]) = 0
             THEN ParseQsFields(Tail(fields), acc)
             ELSE ParseQsFields(Tail(fields),
                      DictSet(acc, name,
                              Append(Get(acc, name, <<>>), PlusToSpace(nv[2]))))

parse_qs(query) == ParseQsFields(Split(query, "&"), EmptyDict)

----------------------------------------------------------------------------
(* json.loads on the JSON texts of the model: null, true, false,            *)
(* non-negative integers, numbers with a fraction of one digit, strings     *)
(* without escapes, arrays and objects, without white space.  A parse step  *)
(* returns [ok, value, next].                                               *)

SNull == <<"n", "u", "l", "l">>

STrue == <<"t", "r", "u", "e">>

SFalse == <<"f", "a", "l", "s", "e">>

JsonFail == [ok |-> FALSE, value |-> None, next |-> 0]

StartsWith(s, i, lit) ==
    i + Len(lit) - 1 <= Len(s) /\ SubSeq(s, i, i + Len(lit) - 1) = lit

(* s[i] is the opening quote *)
JsonString(s, i) ==
    LET k == Find(SubSeq(s, i + 1, Len(s)), "\"")
    IN  IF k = 0 THEN JsonFail
        ELSE [ok |-> TRUE, value |-> Str(SubSeq(s, i + 1, i + k - 1)), next |-> i + k + 1]

StartsWithDigit(s, i) == i <= Len(s) /\ s[i] \in DigitChars

(* s[i] is a digit: "0" stands alone, another digit starts a run of digits; *)
(* a fraction of one digit makes a float, kept in tenths                    *)
JsonNumber(s, i) ==
    LET stop == IF s[i] = "0" THEN i + 1
                ELSE i - 1 + FindAny(SubSeq(s, i, Len(s)),
                                     {s[k] : k \in i..Len(s)} \ DigitChars)
        whole == IntOf(SubSeq(s, i, stop - 1))
    IN  IF StartsWith(s, stop, <<".">>) /\ StartsWithDigit(s, stop + 1)
        THEN [ok |-> TRUE, value |-> [float |-> 10 * whole + IntOf(<<s[stop + 1]>>)],
              next |-> stop + 2]
        ELSE [ok |-> TRUE, value |-> [int |-> whole], next |-> stop]

RECURSIVE JsonValue(_, _), JsonElements(_, _, _), JsonMember(_, _, _),
          JsonMembers(_, _, _)

JsonValue(s, i) ==
    IF i > Len(s) THEN JsonFail
    ELSE IF StartsWith(s, i, SNull)
    THEN [ok |-> TRUE, value |-> None, next |-> i + 4]
    ELSE IF StartsWith(s, i, STrue)
    THEN [ok |-> TRUE, value |-> [bool |-> TRUE], next |-> i + 4]
    ELSE IF StartsWith(s, i, SFalse)
    THEN [ok |-> TRUE, value |-> [bool |-> FALSE], next |-> i + 5]
    ELSE IF s[i] = "\"" THEN JsonString(s, i)
    ELSE IF s[i] \in DigitChars THEN JsonNumber(s, i)
    ELSE IF s[i] = "["
    THEN IF StartsWith(s, i + 1, <<"]">>)
         THEN [ok |-> TRUE, value |-> [list |-> <<>>], next |-> i + 2]
         ELSE JsonElements(s, i + 1, <<>>)
    ELSE IF s[i] = "{"
    THEN IF StartsWith(s, i + 1, <<"}">>)
         THEN [ok |-> TRUE, value |-> EmptyDict, next |-> i + 2]
         ELSE JsonMembers(s, i + 1, EmptyDict)
    ELSE JsonFail

JsonElements(s, i, acc) ==
    Only({IF ~v.ok THEN JsonFail
          ELSE IF StartsWith(s, v.next, <<",">>)
          THEN JsonElements(s, v.next + 1, Append(acc, v.value))
          ELSE IF StartsWith(s, v.next, <<"]">>)
          THEN [ok |-> TRUE, value |-> [list |-> Append(acc, v.value)],
                next |-> v.next + 1]
          ELSE JsonFail :
             v \in {JsonValue(s, i)}})

JsonMember(s, key, acc) ==
    Only({IF ~v.ok THEN JsonFail
          ELSE Only({IF StartsWith(s, v.next, <<",">>)
                     THEN JsonMembers(s, v.next + 1, obj)
                     ELSE IF StartsWith(s, v.next, <<"}">>)
                     THEN [ok |-> TRUE, value |-> obj, next |-> v.next + 1]
                     ELSE JsonFail :
                        obj \in {DictSet(acc, key.value.str, v.value)}}) :
             v \in {JsonValue(s, key.next + 1)}})

JsonMembers(s, i, acc) ==
    IF ~StartsWith(s, i, <<"\"">>) THEN JsonFail
    ELSE Only({IF ~key.ok \/ ~StartsWith(s, key.next, <<":">>) THEN JsonFail
               ELSE JsonMember(s, key, acc) :
                  key \in {JsonString(s, i)}})

(* json.loads(text) of a str: ok, or JSONDecodeError (also on trailing text) *)
json_loads(text) ==
    Only({IF r.ok /\ r.next = Len(text) + 1
          THEN [ok |-> TRUE, value |-> r.value]
          ELSE [ok |-> FALSE, value |-> None] :
             r \in {JsonValue(text, 1)}})

----------------------------------------------------------------------------
(* infer_schema_from_value *)

(* no value is a bool: the test of line 29 left out *)
NeverBool(value) == FALSE

(* isinstance(value, bool) *)
IsInstanceBool(value) == DOMAIN value = {"bool"}

(* value[-1] *)
LastElement(list) == list[Len(list)]

(* value[0], the element the items schema is inferred from *)
FirstElement(list) == list[1]

(* every key of the object, whatever its value *)
RECURSIVE AllKeys(_)
AllKeys(items) ==
    IF Len(items) = 0 THEN <<>>
    ELSE <<items[1][1]>> \o AllKeys(Tail(items))

(* the schema with an "example" key whatever the flag *)
AlwaysWithExample(schema, example, value) == schema @@ [example |-> value]

(* isinstance(value, int): bool is a subclass of int *)
IsInstanceInt(value) == DOMAIN value \in {{"int"}, {"bool"}}

(* the schema with its "example" key when example is set *)
WithExample(schema, example, value) ==
    IF example THEN schema @@ [example |-> value] ELSE schema

(* the keys appended to `required`: those whose value is not None *)
RECURSIVE RequiredKeys(_)
RequiredKeys(items) ==
    IF Len(items) = 0 THEN <<>>
    ELSE (IF items[1][2] # None THEN <<items[1][1]>> ELSE <<>>)
             \o RequiredKeys(Tail(items))

RECURSIVE infer_schema_from_value(_, _)
infer_schema_from_value(value, example) ==
    IF value = None
    THEN WithExample([type |-> "null"], example, None)
    ELSE IF IsInstanceBool(value)
    THEN WithExample([type |-> "boolean"], example, value)
    ELSE IF IsInstanceInt(value)
    THEN WithExample([type |-> "integer"], example, value)
    ELSE IF DOMAIN value = {"float"}
    THEN WithExample([type |-> "number"], example, value)
    ELSE IF DOMAIN value = {"str"}
    THEN WithExample([type |-> "string"], example, value)
    ELSE IF DOMAIN value = {"list"}
    THEN IF Len(value.list) = 0
         THEN [type |-> "array", items |-> <<>>]
         ELSE WithExample([type  |-> "array",
                           items |-> infer_schema_from_value(
                                         FirstElement(value.list), example)],
                          example, value)
    ELSE IF DOMAIN value = {"dict"}
    THEN LET properties ==
                 [dict |-> [k \in 1..Len(value.dict) |->
                     <<value.dict[k][1],
                       infer_schema_from_value(value.dict[k][2], example)>>]]
             required == RequiredKeys(value.dict)
             schema == [type |-> "object", properties |-> properties]
         IN  WithExample(IF Len(required) > 0
                         THEN schema @@ [required |-> required]
                         ELSE schema,
                         example, value)
    ELSE [type |-> "string"]

----------------------------------------------------------------------------
(* normalize_path *)

(* f"{{{param_name}}}" with param_name = "id" *)
IdPlaceholder == <<"{">> \o SId \o <<"}">>

IntegerIdParam(part) ==
    [name |-> SId, in |-> "path", required |-> TRUE,
     schema |-> [type |-> "integer"], example |-> [int |-> IntOf(part)]]

UuidIdParam(part) ==
    [name |-> SId, in |-> "path", required |-> TRUE,
     schema |-> [type |-> "string", format |-> "uuid"], example |-> Str(part)]

(* the `elif` test of a path segment that is not all digits *)
IsUuidLike(part) ==
    Len(part) > 20 /\ (Contains(<<"-">>, part) \/ Len(part) = 32)

(* the loop over path_parts; raises when int(part) raises *)
RECURSIVE NormalizeParts(_, _, _)
NormalizeParts(path_parts, normalized_parts, path_params) ==
    IF Len(path_parts) = 0
    THEN [raises |-> FALSE, normalized_parts |-> normalized_parts,
          path_params |-> path_params]
    ELSE LET part == path_parts[1]
             rest == Tail(path_parts)
         IN  IF Len(part) = 0
             THEN NormalizeParts(rest, Append(normalized_parts, part), path_params)
             ELSE IF IsDigit(part)
             THEN IF IntRaises(part)
                  THEN [raises |-> TRUE, normalized_parts |-> normalized_parts,
                        path_params |-> path_params]
                  ELSE NormalizeParts(rest, Append(normalized_parts, IdPlaceholder),
                                      DictSet(path_params, SId, IntegerIdParam(part)))
             ELSE IF IsUuidLike(part)
             THEN NormalizeParts(rest, Append(normalized_parts, IdPlaceholder),
                                 DictSet(path_params, SId, UuidIdParam(part)))
             ELSE NormalizeParts(rest, Append(normalized_parts, part), path_params)

normalize_path(url) ==
    Only({Only({Only({[raises      |-> parsed.raises \/ r.raises,
                       base_url    |-> parsed.scheme \o <<":", "/", "/">> \o parsed.netloc,
                       path        |-> Join(r.normalized_parts, "/"),
                       path_params |-> r.path_params] :
                          r \in {NormalizeParts(path_parts, <<>>, EmptyDict)}}) :
                   path_parts \in {Split(parsed.path, "/")}}) :
             parsed \in {urlparse(url)}})

----------------------------------------------------------------------------
(* parse_network_request *)

StaticExtensions ==
    <<<<".", "c", "s", "s">>,
      <<".", "j", "s">>,
      <<".", "p", "n", "g">>,
      <<".", "j", "p", "g">>,
      <<".", "g", "i", "f">>,
      <<".", "s", "v", "g">>,
      <<".", "w", "o", "f", "f">>,
      <<".", "t", "t", "f">>>>

(* a static extension only where the url path ends *)
EndsWithStaticExtension(url) ==
    \E k \in 1..Len(StaticExtensions) :
        LET ext == StaticExtensions[k]
            path == urlparse(url).path
        IN  /\ Len(path) >= Len(ext)
            /\ SubSeq(path, Len(path) - Len(ext) + 1, Len(path)) = ext

(* any(ext in url for ext in [...]) *)
IsStaticAsset(url) ==
    \E k \in 1..Len(StaticExtensions) : Contains(StaticExtensions[k], url)

(* `"application/json" in v`: substring of a str, element of a list, key of *)
(* a dict, TypeError for the rest                                           *)
InRaises(v) == DOMAIN v \in {{"null"}, {"bool"}, {"int"}, {"float"}}

InValue(sub, v) ==
    CASE DOMAIN v = {"str"} -> Contains(sub, v.str)
      [] DOMAIN v = {"list"} -> \E k \in 1..Len(v.list) : v.list[k] = Str(sub)
      [] DOMAIN v = {"dict"} -> HasKey(v, sub)
      [] OTHER -> FALSE

(* str(response_status) *)
PyStr(v) ==
    CASE DOMAIN v = {"int"} -> StrOfInt(v.int)
      [] DOMAIN v = {"str"} -> v.str
      [] DOMAIN v = {"null"} -> <<"N", "o", "n", "e">>
      [] DOMAIN v = {"bool"} -> IF v.bool THEN <<"T", "r", "u", "e">>
                                          ELSE <<"F", "a", "l", "s", "e">>

(* the query parameter list built from parse_qs *)
QueryParamSpecs(query) ==
    LET query_params == parse_qs(query).dict
    IN  [k \in 1..Len(query_params) |->
            [name    |-> query_params[k][1],
             in      |-> "query",
             schema  |-> [type |-> "string"],
             example |-> Str(IF Len(query_params[k][2]) > 0
                             THEN query_params[k][2][1] ELSE <<>>)]]

(* RequestBody with TypeError caught beside JSONDecodeError *)
RequestBodyCatchingTypeError(request) ==
    LET request_headers == Get(request, KRequestHeaders, EmptyDict)
        content_type == Get(request_headers, KContentType, Str(<<>>))
        post_data == Get(request, KPostData, None)
        absent == [raises |-> FALSE, request_body |-> None]
        raised == [raises |-> TRUE, request_body |-> None]
    IN  IF ~IsDict(request_headers) THEN raised
        ELSE IF ~Truthy(post_data) THEN absent
        ELSE IF InRaises(content_type) THEN raised
        ELSE IF ~InValue(SAppJson, content_type) THEN absent
        ELSE IF ~IsStr(post_data) THEN absent
        ELSE LET body_json == json_loads(post_data.str)
             IN  IF ~body_json.ok THEN absent
                 ELSE [raises |-> FALSE,
                       request_body |->
                         [content |-> [application_json |->
                            [schema |-> infer_schema_from_value(body_json.value, FALSE)]]]]

(* RequestBody without the test of the content type *)
RequestBodyAnyContentType(request) ==
    LET request_headers == Get(request, KRequestHeaders, EmptyDict)
        post_data == Get(request, KPostData, None)
        absent == [raises |-> FALSE, request_body |-> None]
        raised == [raises |-> TRUE, request_body |-> None]
    IN  IF ~IsDict(request_headers) THEN raised
        ELSE IF ~Truthy(post_data) THEN absent
        ELSE IF ~IsStr(post_data) THEN raised
        ELSE LET body_json == json_loads(post_data.str)
             IN  IF ~body_json.ok THEN absent
                 ELSE [raises |-> FALSE,
                       request_body |->
                         [content |-> [application_json |->
                            [schema |-> infer_schema_from_value(body_json.value, FALSE)]]]]

(* "Parse request body": [raises, request_body] *)
RequestBody(request) ==
    LET request_headers == Get(request, KRequestHeaders, EmptyDict)
        content_type == Get(request_headers, KContentType, Str(<<>>))
        post_data == Get(request, KPostData, None)
        absent == [raises |-> FALSE, request_body |-> None]
        raised == [raises |-> TRUE, request_body |-> None]
    IN  IF ~IsDict(request_headers) THEN raised
        ELSE IF ~Truthy(post_data) THEN absent
        ELSE IF InRaises(content_type) THEN raised
        ELSE IF ~InValue(SAppJson, content_type) THEN absent
        ELSE IF ~IsStr(post_data) THEN raised
        ELSE LET body_json == json_loads(post_data.str)
             IN  IF ~body_json.ok THEN absent
                 ELSE [raises |-> FALSE,
                       request_body |->
                         [content |-> [application_json |->
                            [schema |-> infer_schema_from_value(body_json.value, FALSE)]]]]

(* a responses map without entries *)
NoResponses == EmptyDict

GenericResponses ==
    [dict |-> << <<S200, [description |-> "Successful response"]>> >>]

(* ResponseSpec with the fallback keyed by the observed status *)
ResponseSpecFallbackByStatus(request) ==
    LET response == Get(request, KResponse, EmptyDict)
        response_status == Get(response, KStatus, [int |-> 200])
        response_body == Get(response, KBody, None)
        headers == Get(response, KHeaders, EmptyDict)
        response_content_type == Get(headers, KContentType, Str(<<>>))
        generic == [raises |-> FALSE,
                    response_spec |-> [dict |->
                      << <<PyStr(response_status),
                           [description |-> "Successful response"]>> >>]]
        raised == [raises |-> TRUE, response_spec |-> None]
    IN  IF ~IsDict(response) THEN raised
        ELSE IF ~Truthy(response_body) THEN generic
        ELSE IF ~IsDict(headers) \/ InRaises(response_content_type) THEN raised
        ELSE IF ~InValue(SAppJson, response_content_type) THEN generic
        ELSE IF ~IsStr(response_body) THEN raised
        ELSE LET response_json == json_loads(response_body.str)
             IN  IF ~response_json.ok THEN generic
                 ELSE [raises |-> FALSE,
                       response_spec |-> [dict |->
                         << <<PyStr(response_status),
                              [description |-> "Successful response",
                               content |-> [application_json |->
                                  [schema |-> infer_schema_from_value(
                                                  response_json.value, FALSE)]]]>> >>]]

(* ResponseSpec with the inferred schema stored under a fixed "200" *)
ResponseSpecFixedStatus(request) ==
    LET response == Get(request, KResponse, EmptyDict)
        response_body == Get(response, KBody, None)
        headers == Get(response, KHeaders, EmptyDict)
        response_content_type == Get(headers, KContentType, Str(<<>>))
        generic == [raises |-> FALSE, response_spec |-> GenericResponses]
        raised == [raises |-> TRUE, response_spec |-> None]
    IN  IF ~IsDict(response) THEN raised
        ELSE IF ~Truthy(response_body) THEN generic
        ELSE IF ~IsDict(headers) \/ InRaises(response_content_type) THEN raised
        ELSE IF ~InValue(SAppJson, response_content_type) THEN generic
        ELSE IF ~IsStr(response_body) THEN raised
        ELSE LET response_json == json_loads(response_body.str)
             IN  IF ~response_json.ok THEN generic
                 ELSE [raises |-> FALSE,
                       response_spec |-> [dict |->
                         << <<S200,
                              [description |-> "Successful response",
                               content |-> [application_json |->
                                  [schema |-> infer_schema_from_value(
                                                  response_json.value, FALSE)]]]>> >>]]

(* "Parse response": [raises, response_spec] *)
ResponseSpec(request) ==
    LET response == Get(request, KResponse, EmptyDict)
        response_status == Get(response, KStatus, [int |-> 200])
        response_body == Get(response, KBody, None)
        headers == Get(response, KHeaders, EmptyDict)
        response_content_type == Get(headers, KContentType, Str(<<>>))
        generic == [raises |-> FALSE, response_spec |-> GenericResponses]
        raised == [raises |-> TRUE, response_spec |-> None]
    IN  IF ~IsDict(response) THEN raised
        ELSE IF ~Truthy(response_body) THEN generic
        ELSE IF ~IsDict(headers) \/ InRaises(response_content_type) THEN raised
        ELSE IF ~InValue(SAppJson, response_content_type) THEN generic
        ELSE IF ~IsStr(response_body) THEN raised
        ELSE LET response_json == json_loads(response_body.str)
             IN  IF ~response_json.ok THEN generic
                 ELSE [raises |-> FALSE,
                       response_spec |-> [dict |->
                         << <<PyStr(response_status),
                              [description |-> "Successful response",
                               content |-> [application_json |->
                                  [schema |-> infer_schema_from_value(
                                                  response_json.value, FALSE)]]]>> >>]]

(* The value returned and whether the `except` clause printed a diagnostic *)
Caught == [value |-> None, error |-> TRUE]

Skipped == [value |-> None, error |-> FALSE]

(* parse_network_request with the body blocks guarded one by one: a raise in *)
(* one of them prints the diagnostic and leaves that field out               *)
parse_network_request_keeping_partial(request) ==
    IF ~IsDict(request) THEN Caught
    ELSE LET url == Get(request, KUrl, Str(<<>>))
             method == Get(request, KMethod, Str(SGet))
         IN  IF ~IsStr(method) \/ ~IsStr(url) THEN Caught
             ELSE IF IsStaticAsset(url.str) THEN Skipped
             ELSE LET np == normalize_path(url.str)
                      body == RequestBody(request)
                      resp == ResponseSpec(request)
                  IN  IF np.raises THEN Caught
                      ELSE [error |-> body.raises \/ resp.raises,
                            value |->
                              [base_url     |-> np.base_url,
                               path         |-> np.path,
                               method       |-> Lower(method.str),
                               path_params  |-> Values(np.path_params),
                               query_params |-> QueryParamSpecs(urlparse(url.str).query),
                               request_body |-> body.request_body,
                               responses    |-> IF resp.raises THEN GenericResponses
                                                ELSE resp.response_spec]]

parse_network_request(request) ==
    IF ~IsDict(request) THEN Caught
    ELSE LET url == Get(request, KUrl, Str(<<>>))
             method == Get(request, KMethod, Str(SGet))
         IN  IF ~IsStr(method) \/ ~IsStr(url) THEN Caught
             ELSE IF IsStaticAsset(url.str) THEN Skipped
             ELSE Only({IF np.raises \/ body.raises \/ resp.raises THEN Caught
                        ELSE [error |-> FALSE,
                              value |->
                                [base_url     |-> np.base_url,
                                 path         |-> np.path,
                                 method       |-> Lower(method.str),
                                 path_params  |-> Values(np.path_params),
                                 query_params |-> QueryParamSpecs(urlparse(url.str).query),
                                 request_body |-> body.request_body,
                                 responses    |-> resp.response_spec]] :
                           np \in {normalize_path(url.str)},
                           body \in {RequestBody(request)},
                           resp \in {ResponseSpec(request)}})

----------------------------------------------------------------------------
(* sorted() on str: code point order *)

(* the printable ASCII characters, U+0020 to U+007E, in code point order;   *)
(* "bsl" stands for the backslash, "grave" for the grave accent             *)
AsciiChars ==
    <<" ", "!", "\"", "#", "$", "%", "&", "'", "(", ")", "*", "+",
      ",", "-", ".", "/", "0", "1", "2", "3", "4", "5", "6", "7",
      "8", "9", ":", ";", "<", "=", ">", "?", "@", "A", "B", "C",
      "D", "E", "F", "G", "H", "I", "J", "K", "L", "M", "N", "O",
      "P", "Q", "R", "S", "T", "U", "V", "W", "X", "Y", "Z", "[",
      "bsl", "]", "^", "_", "grave", "a", "b", "c", "d", "e", "f", "g",
      "h", "i", "j", "k", "l", "m", "n", "o", "p", "q", "r", "s",
      "t", "u", "v", "w", "x", "y", "z", "{", "|", "}", "~">>

(* ord(c) *)
Ord(c) ==
    IF c = SuperTwo THEN 178
    ELSE 31 + (CHOOSE k \in 1..Len(AsciiChars) : AsciiChars[k] = c)

(* s < t on str *)
RECURSIVE StrLess(_, _)
StrLess(s, t) ==
    IF Len(t) = 0 THEN FALSE
    ELSE IF Len(s) = 0 THEN TRUE
    ELSE IF s[1] = t[1] THEN StrLess(Tail(s), Tail(t))
    ELSE Ord(s[1]) < Ord(t[1])

(* sorted(S) of a set of str *)
RECURSIVE SortedStrs(_)
SortedStrs(S) ==
    IF S = {} THEN <<>>
    ELSE Only({<<least>> \o SortedStrs(S \ {least}) :
                  least \in {CHOOSE s \in S : \A t \in S \ {s} : StrLess(s, t)}})

(* the items in insertion order *)
ItemsAsInserted(d) == d.dict

(* sorted(d.items()) of a dict with str keys *)
SortedItems(d) ==
    Only({[k \in 1..Len(keys) |-> <<keys[k], Get(d, keys[k], None)>>] :
             keys \in {SortedStrs({d.dict[k][1] : k \in 1..Len(d.dict)})}})

----------------------------------------------------------------------------
(* generate_openapi_spec *)

(* the `parameters` list of one iteration: path parameters, then query *)
Parameters(parsed) == parsed.path_params \o parsed.query_params

(* f"{method.upper()} {path}" *)
Summary(parsed) == Upper(parsed.method) \o <<" ">> \o parsed.path

(* "Build operation object" *)
Operation(parsed) ==
    LET base == [summary |-> Summary(parsed), responses |-> parsed.responses]
        withParams == IF Len(Parameters(parsed)) > 0
                      THEN base @@ [parameters |-> Parameters(parsed)]
                      ELSE base
    IN  IF parsed.request_body # None
        THEN withParams @@ [requestBody |-> parsed.request_body]
        ELSE withParams

(* {p["name"]: p for p in params}: a repeated name keeps the place of its   *)
(* first entry and the value of its last                                    *)
RECURSIVE ByName(_, _)
ByName(params, acc) ==
    IF Len(params) = 0 THEN acc
    ELSE ByName(Tail(params), DictSet(acc, params[1].name, params[1]))

(* the loop adding the parameters whose name is not in existing_params *)
RECURSIVE AddMissing(_, _)
AddMissing(existing_params, parameters) ==
    IF Len(parameters) = 0 THEN existing_params
    ELSE AddMissing(IF ~HasKey(existing_params, parameters[1].name)
                    THEN DictSet(existing_params, parameters[1].name, parameters[1])
                    ELSE existing_params,
                    Tail(parameters))

(* operation.get("parameters", []) *)
StoredParameters(operation) ==
    IF "parameters" \in DOMAIN operation THEN operation.parameters ELSE <<>>

(* "Merge parameters" into the stored operation *)
MergeParameters(stored, parameters) ==
    LET existing_params == AddMissing(ByName(StoredParameters(stored), EmptyDict),
                                      parameters)
    IN  IF Len(existing_params.dict) > 0
        THEN [parameters |-> Values(existing_params)] @@ stored
        ELSE stored

(* StoreOrMerge that stores the operation of every exchange: the last wins *)
StoreOrMergeOverwriting(pathMap, parsed) ==
    LET methods == Get(pathMap, parsed.path, EmptyDict)
    IN  DictSet(pathMap, parsed.path,
                DictSet(methods, parsed.method, Operation(parsed)))

(* "Merge with existing operation if present", else store the operation *)
StoreOrMerge(pathMap, parsed) ==
    LET methods == Get(pathMap, parsed.path, EmptyDict)
        operation == IF HasKey(methods, parsed.method)
                     THEN MergeParameters(Get(methods, parsed.method, None),
                                          Parameters(parsed))
                     ELSE Operation(parsed)
    IN  DictSet(pathMap, parsed.path, DictSet(methods, parsed.method, operation))

(* BuildSpec with the servers in descending order *)
BuildSpecServersDescending(pathMap, serverSet) ==
    LET urls == SortedStrs(serverSet)
    IN  [openapi |-> "3.0.0",
         info    |-> [title |-> "Generated API", version |-> "1.0.0",
                      description |-> "API specification generated from Chrome DevTools network requests"],
         servers |-> [k \in 1..Len(urls) |-> [url |-> urls[Len(urls) + 1 - k]]],
         paths   |-> [dict |-> SortedItems(pathMap)]]

(* "Build OpenAPI spec" *)
BuildSpec(pathMap, serverSet) ==
    Only({[openapi |-> "3.0.0",
           info    |-> [title |-> "Generated API", version |-> "1.0.0",
                        description |-> "API specification generated from Chrome DevTools network requests"],
           servers |-> [k \in 1..Len(urls) |-> [url |-> urls[k]]],
           paths   |-> [dict |-> SortedItems(pathMap)]] :
             urls \in {SortedStrs(serverSet)}})

(* the for loop: the path map and the server set after `reqs` *)
RECURSIVE Aggregate(_, _, _)
Aggregate(reqs, pathMap, serverSet) ==
    IF Len(reqs) = 0 THEN [paths |-> pathMap, servers |-> serverSet]
    ELSE LET r == parse_network_request(reqs[1]).value
         IN  IF r = None
             THEN Aggregate(Tail(reqs), pathMap, serverSet)
             ELSE Aggregate(Tail(reqs), StoreOrMerge(pathMap, r),
                            serverSet \cup {r.base_url})

generate_openapi_spec(reqs) ==
    LET a == Aggregate(reqs, EmptyDict, {})
    IN  BuildSpec(a.paths, a.servers)

----------------------------------------------------------------------------
(* The captured exchanges of the model: the request objects of the input    *)
(* JSON array                                                               *)

HttpA == <<"h", "t", "t", "p", ":", "/", "/", "a">>

HttpB == <<"h", "t", "t", "p", ":", "/", "/", "b">>

BodyAnn == <<"{", "\"", "i", "d", "\"", ":", "1", ",", "\"", "n", "a", "m", "e", "\"", ":", "\"", "A", "n", "n", "\"", "}">>

BodyBo == <<"{", "\"", "i", "d", "\"", ":", "2", ",", "\"", "n", "a", "m", "e", "\"", ":", "\"", "B", "o", "\"", "}">>

BodyNewUser == <<"{", "\"", "n", "a", "m", "e", "\"", ":", "\"", "A", "n", "n", "\"", ",", "\"", "t", "a", "g", "\"", ":", "n", "u", "l", "l", "}">>

BodyArray == <<"[", "1", ",", "\"", "a", "\"", "]">>

BodyOops == <<"{", "o", "o", "p", "s">>

BodyHtml == <<"<", "h", "t", "m", "l", ">">>

SPost == <<"P", "O", "S", "T">>

SJsonV1 == <<"a", "p", "p", "l", "i", "c", "a", "t", "i", "o", "n", "/", "j", "s", "o", "n", ";", "v", "=", "1">>

STextPlain == <<"t", "e", "x", "t", "/", "p", "l", "a", "i", "n">>

(* a 21-character segment with a hyphen *)
UuidSegment == <<"0", "a", "1", "b", "2", "c", "3", "d", "-", "4", "e", "5", "f", "-", "6", "7", "8", "9", "a", "b", "c">>

Field(key, value) == << <<key, value>> >>

ContentType(value) == [dict |-> Field(KContentType, Str(value))]

Response(status, contentType, body) ==
    [dict |-> Field(KStatus, [int |-> status])
              \o Field(KHeaders, ContentType(contentType))
              \o Field(KBody, body)]

GetUser1 ==
    [dict |-> Field(KUrl, Str(HttpA \o <<"/", "u", "/", "1">>))
              \o Field(KMethod, Str(SGet))
              \o Field(KResponse, Response(200, SAppJson, Str(BodyAnn)))]

GetUser2 ==
    [dict |-> Field(KUrl, Str(HttpA \o <<"/", "u", "/", "2">>))
              \o Field(KMethod, Str(SGet))
              \o Field(KResponse, Response(200, SAppJson, Str(BodyBo)))]

(* a query key named like the path parameter; no response recorded *)
GetUser1QueryId ==
    [dict |-> Field(KUrl, Str(HttpA \o <<"/", "u", "/", "1", "?", "i", "d", "=", "5">>))
              \o Field(KMethod, Str(SGet))]

(* lower-case method, status 404 with a JSON array *)
GetUser2Query ==
    [dict |-> Field(KUrl, Str(HttpA \o <<"/", "u", "/", "2", "?", "q", "=", "x", "&", "i", "d", "=", "9">>))
              \o Field(KMethod, Str(<<"g", "e", "t">>))
              \o Field(KResponse, Response(404, SJsonV1, Str(BodyArray)))]

(* leading zero, a repeated query key and a blank query value; no method *)
GetUser07 ==
    [dict |-> Field(KUrl, Str(HttpA \o <<"/", "u", "/", "0", "7", "?", "q", "=", "y", "&", "q", "=", "z", "&", "e", "=">>))
              \o Field(KResponse, Response(200, SAppJson, Str(BodyHtml)))]

GetOrders ==
    [dict |-> Field(KUrl, Str(HttpA \o <<"/", "u", "/", "3", "/", "o", "/", "7", "7">>))
              \o Field(KMethod, Str(SGet))
              \o Field(KResponse, Response(200, STextPlain, Str(BodyAnn)))]

GetFile ==
    [dict |-> Field(KUrl, Str(HttpB \o <<"/", "f", "/">> \o UuidSegment))
              \o Field(KMethod, Str(SGet))]

(* the path holds the placeholder text itself *)
GetLiteralId ==
    [dict |-> Field(KUrl, Str(HttpA \o <<"/", "u", "/", "{", "i", "d", "}">>))
              \o Field(KMethod, Str(SGet))]

PostUser ==
    [dict |-> Field(KUrl, Str(HttpA \o <<"/", "u">>))
              \o Field(KMethod, Str(SPost))
              \o Field(KRequestHeaders, ContentType(SJsonV1))
              \o Field(KPostData, Str(BodyNewUser))
              \o Field(KResponse, Response(201, SAppJson, Str(BodyAnn)))]

(* request and response bodies that are not JSON *)
PostUserGarbage ==
    [dict |-> Field(KUrl, Str(HttpA \o <<"/", "u">>))
              \o Field(KMethod, Str(SPost))
              \o Field(KRequestHeaders, ContentType(SAppJson))
              \o Field(KPostData, Str(BodyOops))
              \o Field(KResponse, Response(500, SAppJson, Str(BodyHtml)))]

(* a JSON text sent as text/plain *)
PostUserText ==
    [dict |-> Field(KUrl, Str(HttpB \o <<"/", "u">>))
              \o Field(KMethod, Str(SPost))
              \o Field(KRequestHeaders, ContentType(STextPlain))
              \o Field(KPostData, Str(BodyNewUser))]

(* the header key in another letter case *)
PostUserHeaderCase ==
    [dict |-> Field(KUrl, Str(HttpB \o <<"/", "u">>))
              \o Field(KMethod, Str(SPost))
              \o Field(KRequestHeaders, [dict |-> Field(<<"C", "o", "n", "t", "e", "n", "t", "-", "T", "y", "p", "e">>, Str(SAppJson))])
              \o Field(KPostData, Str(BodyNewUser))]

(* postData captured as an object, not as text: json.loads raises TypeError *)
PostUserObjectBody ==
    [dict |-> Field(KUrl, Str(HttpB \o <<"/", "u">>))
              \o Field(KMethod, Str(SPost))
              \o Field(KRequestHeaders, ContentType(SAppJson))
              \o Field(KPostData, [dict |-> Field(<<"n", "a", "m", "e">>, Str(<<"A">>))])]

(* response body captured as an object: json.loads raises TypeError *)
GetObjectResponse ==
    [dict |-> Field(KUrl, Str(HttpB \o <<"/", "u", "/", "1">>))
              \o Field(KMethod, Str(SGet))
              \o Field(KResponse,
                       Response(200, SAppJson, [dict |-> Field(<<"n", "a", "m", "e">>, Str(<<"A">>))]))]

StaticScript ==
    [dict |-> Field(KUrl, Str(HttpB \o <<"/", "m", ".", "j", "s">>))
              \o Field(KMethod, Str(SGet))]

(* "method": null: None has no lower() *)
NullMethod ==
    [dict |-> Field(KUrl, Str(HttpB \o <<"/", "u", "/", "1">>))
              \o Field(KMethod, None)]

(* urlparse raises ValueError("Invalid IPv6 URL") *)
BadBracket ==
    [dict |-> Field(KUrl, Str(<<"h", "t", "t", "p", ":", "/", "/", "[", "b", "/", "u">>))
              \o Field(KMethod, Str(SGet))]

(* a static extension in the query string only *)
StaticInQuery ==
    [dict |-> Field(KUrl, Str(HttpB \o <<"/", "u", "?", "f", "=", "a", ".", "c", "s", "s",
                                         "&", "v", "=", "1">>))
              \o Field(KMethod, Str(SGet))]

(* isdigit() holds for the segment and int() raises ValueError *)
SuperDigit ==
    [dict |-> Field(KUrl, Str(HttpA \o <<"/", "u", "/", SuperTwo>>))
              \o Field(KMethod, Str(SGet))]

Exchanges ==
    {GetUser1, GetUser2, GetUser1QueryId, GetUser2Query, GetUser07, GetOrders,
     GetFile, GetLiteralId, PostUser, PostUserGarbage, PostUserText,
     PostUserHeaderCase, PostUserObjectBody, GetObjectResponse, StaticScript,
     StaticInQuery, NullMethod, BadBracket, SuperDigit}

(* the longest input list *)
MaxRequests == 2

----------------------------------------------------------------------------
(* The run of generate_openapi_spec(requests) *)

VARIABLES
    requests,     \* the argument: the list of request objects
    idx,          \* how many requests the for loop has taken
    parsed,       \* the loop's `parsed`: the last value of parse_network_request
    diagnostics,  \* lines "Error parsing request" printed to stderr
    paths,        \* the defaultdict path -> method -> operation
    servers,      \* the set of base urls
    pc,           \* "loop" in the for loop, "done" after the return,
                  \* "idle" while generate_openapi_spec is not called
    spec          \* the returned document, None before the return

(* the run of main *)
VARIABLES
    argv,         \* sys.argv
    input,        \* what json.load(f) returns for the input file
    yaml_importable, \* whether `import yaml` succeeds
    mpc,          \* "start", "generate", "exit"; "none" when main does not run
    files,        \* the files opened for writing, with what was dumped
    stdout,       \* what main printed to sys.stdout
    stderr,       \* what main printed to sys.stderr
    exit_status   \* the exit status of the process, None while it runs

(* one call of normalize_path *)
VARIABLES
    url,          \* the argument
    normalized    \* the outcome of the call, None before it

(* one call of infer_schema_from_value *)
VARIABLES
    infer_value,   \* the argument `value`
    infer_example, \* the argument `example`
    inferred       \* the returned schema, None before the return

(* the processes that run track_skill_usage on one data file *)
VARIABLES
    data_file,    \* the content of the data file, None while it does not exist
    clock,        \* what datetime.now() returns next
    remaining,    \* per process, how many calls it still makes
    calling,      \* per process, the arguments of its call, None between calls
    loaded,       \* per process, its local `data`, None between calls
    completed     \* the calls that returned, with the record each appended

(* one call of ImageDownloader.download_image, from line 115 on *)
VARIABLES
    directory,    \* the files of output_dir: name -> content
    filename,     \* the `filename` that reaches line 115
    output_path,  \* the local `output_path`, as a name inside output_dir
    original_stem,\* the local `original_stem`
    counter,      \* the local `counter`
    dpc           \* "start", "search", "written"; "idle" when not called

mainVars == <<argv, input, yaml_importable, mpc, files, stdout, stderr, exit_status>>

pathVars == <<url, normalized>>

inferVars == <<infer_value, infer_example, inferred>>

usageVars == <<data_file, clock, remaining, calling, loaded, completed>>

downloadVars == <<directory, filename, output_path, original_stem, counter, dpc>>

otherVars == <<inferVars, usageVars, downloadVars>>

vars == <<requests, idx, parsed, diagnostics, paths, servers, pc, spec,
          mainVars, pathVars, otherVars>>

(* main does not run *)
NoMain ==
    /\ argv = <<>>
    /\ input = None
    /\ yaml_importable = FALSE
    /\ mpc = "none"
    /\ files = {}
    /\ stdout = <<>>
    /\ stderr = <<>>
    /\ exit_status = None

(* normalize_path is not called on its own *)
NoCall ==
    /\ url = <<>>
    /\ normalized = None

(* infer_schema_from_value is not called on its own *)
NoInfer ==
    /\ infer_value = None
    /\ infer_example = FALSE
    /\ inferred = None

(* track_skill_usage does not run *)
NoUsage ==
    /\ data_file = None
    /\ clock = 0
    /\ remaining = <<>>
    /\ calling = <<>>
    /\ loaded = <<>>
    /\ completed = <<>>

(* download_image is not called *)
NoDownload ==
    /\ directory = <<>>
    /\ filename = <<>>
    /\ output_path = <<>>
    /\ original_stem = <<>>
    /\ counter = 0
    /\ dpc = "idle"

Init ==
    /\ requests \in UNION {[1..n -> Exchanges] : n \in 0..MaxRequests}
    /\ idx = 0
    /\ parsed = None
    /\ diagnostics = 0
    /\ paths = EmptyDict
    /\ servers = {}
    /\ pc = "loop"
    /\ spec = None
    /\ NoMain
    /\ NoCall
    /\ NoInfer
    /\ NoUsage
    /\ NoDownload

(* one iteration of `for request in requests` *)
ProcessRequest ==
    /\ pc = "loop"
    /\ idx < Len(requests)
    /\ \E r \in {parse_network_request(requests[idx + 1])} :
           /\ parsed' = r.value
           /\ diagnostics' = diagnostics + (IF r.error THEN 1 ELSE 0)
           /\ IF r.value = None
              THEN UNCHANGED <<paths, servers>>
              ELSE /\ servers' = servers \cup {r.value.base_url}
                   /\ paths' = StoreOrMerge(paths, r.value)
    /\ idx' = idx + 1
    /\ UNCHANGED <<requests, pc, spec, mainVars, pathVars, otherVars>>

(* the end of the loop: build the document and return it *)
Return ==
    /\ pc = "loop"
    /\ idx = Len(requests)
    /\ spec' = BuildSpec(paths, servers)
    /\ pc' = "done"
    /\ UNCHANGED <<requests, idx, parsed, diagnostics, paths, servers,
                   mainVars, pathVars, otherVars>>

Next == ProcessRequest \/ Return

Spec == Init /\ [][Next]_vars

----------------------------------------------------------------------------
(* The run of main *)

(* isinstance(requests, list) *)
IsList(v) == DOMAIN v = {"list"}

(* s.endswith(suffix) *)
EndsWith(s, suffix) ==
    /\ Len(s) >= Len(suffix)
    /\ SubSeq(s, Len(s) - Len(suffix) + 1, Len(s)) = suffix

(* s.replace(old, new): every occurrence, from the left *)
RECURSIVE Replace(_, _, _)
Replace(s, old, new) ==
    IF Len(s) < Len(old) THEN s
    ELSE IF SubSeq(s, 1, Len(old)) = old
    THEN new \o Replace(SubSeq(s, Len(old) + 1, Len(s)), old, new)
    ELSE <<s[1]>> \o Replace(Tail(s), old, new)

DotYaml == <<".", "y", "a", "m", "l">>

DotYml == <<".", "y", "m", "l">>

DotJson == <<".", "j", "s", "o", "n">>

(* the messages of main *)
UsageMessage == "Usage: generate_openapi.py <network_requests.json> [output.yaml]"

UsageHint == "Input JSON should be an array of network request objects."

NotAListError == "Error: Input must be a JSON array of requests"

YamlWarning == "Warning: PyYAML not installed, outputting JSON instead"

(* print(f"OpenAPI spec written to {output_file}") *)
WrittenTo(name) == [text |-> "OpenAPI spec written to", file |-> name]

(* the command lines of the model *)
Program == <<"g">>

InputFile == <<"i", "n">>

OutYaml == <<"o">> \o DotYaml

OutYml == <<"o">> \o DotYml

OutJson == <<"o">> \o DotJson

CommandLines ==
    {<<Program>>,
     <<Program, InputFile>>,
     <<Program, InputFile, OutYaml>>,
     <<Program, InputFile, OutYml>>,
     <<Program, InputFile, OutJson>>}

(* the contents of the input file of the model: arrays of exchanges, and    *)
(* JSON values that are no array                                            *)
MainExchanges == {GetUser1, PostUser, StaticScript}

InputValues ==
    {[list |-> s] : s \in UNION {[1..n -> MainExchanges] : n \in 0..MaxRequests}}
        \cup {GetUser1, None, Str(HttpA), [int |-> 7]}

(* output_file = sys.argv[2] if len(sys.argv) > 2 else None *)
output_file == IF Len(argv) > 2 THEN Str(argv[3]) ELSE None

(* output_file.endswith('.yaml') or output_file.endswith('.yml') *)
WantsYaml == EndsWith(output_file.str, DotYaml) \/ EndsWith(output_file.str, DotYml)

(* output_file.replace('.yaml', '.json').replace('.yml', '.json') *)
FallbackName == Replace(Replace(output_file.str, DotYaml, DotJson), DotYml, DotJson)

MainInit ==
    /\ argv \in CommandLines
    /\ input \in InputValues
    /\ yaml_importable \in BOOLEAN
    /\ mpc = "start"
    /\ files = {}
    /\ stdout = <<>>
    /\ stderr = <<>>
    /\ exit_status = None
    /\ requests = <<>>
    /\ idx = 0
    /\ parsed = None
    /\ diagnostics = 0
    /\ paths = EmptyDict
    /\ servers = {}
    /\ pc = "idle"
    /\ spec = None
    /\ NoCall
    /\ NoInfer
    /\ NoUsage
    /\ NoDownload

loopVars == <<requests, idx, parsed, diagnostics, paths, servers, pc, spec>>

(* len(sys.argv) < 2: the usage text and sys.exit(1) *)
Usage ==
    /\ mpc = "start"
    /\ Len(argv) < 2
    /\ stderr' = stderr \o <<UsageMessage, UsageHint>>
    /\ exit_status' = [int |-> 1]
    /\ mpc' = "exit"
    /\ UNCHANGED <<argv, input, yaml_importable, files, stdout, loopVars, pathVars, otherVars>>

(* RejectNotList that prints an empty specification before it exits *)
RejectNotListAfterPrinting ==
    /\ mpc = "start"
    /\ Len(argv) >= 2
    /\ ~IsList(input)
    /\ stdout' = stdout \o <<[json |-> BuildSpec(EmptyDict, {})]>>
    /\ stderr' = stderr \o <<NotAListError>>
    /\ exit_status' = [int |-> 1]
    /\ mpc' = "exit"
    /\ UNCHANGED <<argv, input, yaml_importable, files, loopVars, pathVars, otherVars>>

(* the input is read and is no list: the error and sys.exit(1) *)
RejectNotList ==
    /\ mpc = "start"
    /\ Len(argv) >= 2
    /\ ~IsList(input)
    /\ stderr' = stderr \o <<NotAListError>>
    /\ exit_status' = [int |-> 1]
    /\ mpc' = "exit"
    /\ UNCHANGED <<argv, input, yaml_importable, files, stdout, loopVars, pathVars, otherVars>>

(* the input is read and is a list: spec = generate_openapi_spec(requests) *)
CallGenerate ==
    /\ mpc = "start"
    /\ Len(argv) >= 2
    /\ IsList(input)
    /\ requests' = input.list
    /\ pc' = "loop"
    /\ mpc' = "generate"
    /\ UNCHANGED <<idx, parsed, diagnostics, paths, servers, spec,
                   argv, input, yaml_importable, files, stdout, stderr, exit_status,
                   pathVars, otherVars>>

(* generate_openapi_spec has returned *)
AtOutput == mpc = "generate" /\ pc = "done"

(* yaml.dump(spec, f) into output_file and the report *)
WriteYaml ==
    /\ AtOutput
    /\ output_file # None
    /\ WantsYaml
    /\ yaml_importable
    /\ files' = files \cup {[name |-> output_file.str, yaml |-> spec]}
    /\ stdout' = stdout \o <<WrittenTo(output_file.str)>>
    /\ exit_status' = [int |-> 0]
    /\ mpc' = "exit"
    /\ UNCHANGED <<argv, input, yaml_importable, stderr, loopVars, pathVars, otherVars>>

(* except ImportError: the warning and json.dump(spec, f) into the renamed  *)
(* file                                                                     *)
FallbackJson ==
    /\ AtOutput
    /\ output_file # None
    /\ WantsYaml
    /\ ~yaml_importable
    /\ stderr' = stderr \o <<YamlWarning>>
    /\ files' = files \cup {[name |-> FallbackName, json |-> spec]}
    /\ exit_status' = [int |-> 0]
    /\ mpc' = "exit"
    /\ UNCHANGED <<argv, input, yaml_importable, stdout, loopVars, pathVars, otherVars>>

(* json.dump(spec, f) into output_file and the report *)
WriteJson ==
    /\ AtOutput
    /\ output_file # None
    /\ ~WantsYaml
    /\ files' = files \cup {[name |-> output_file.str, json |-> spec]}
    /\ stdout' = stdout \o <<WrittenTo(output_file.str)>>
    /\ exit_status' = [int |-> 0]
    /\ mpc' = "exit"
    /\ UNCHANGED <<argv, input, yaml_importable, stderr, loopVars, pathVars, otherVars>>

(* print(json.dumps(spec, indent=2)) *)
PrintSpec ==
    /\ AtOutput
    /\ output_file = None
    /\ stdout' = stdout \o <<[json |-> spec]>>
    /\ exit_status' = [int |-> 0]
    /\ mpc' = "exit"
    /\ UNCHANGED <<argv, input, yaml_importable, files, stderr, loopVars, pathVars, otherVars>>

MainNext ==
    \/ Usage
    \/ RejectNotList
    \/ CallGenerate
    \/ ProcessRequest
    \/ Return
    \/ WriteYaml
    \/ FallbackJson
    \/ WriteJson
    \/ PrintSpec

MainSpec == MainInit /\ [][MainNext]_vars

----------------------------------------------------------------------------
(* normalize_path applied to a url *)

(* the path segments of the model *)
WordSegment == <<"u">>

NumberSegment == <<"7">>

LeadingZeroSegment == <<"0", "4", "2">>

(* isdigit() holds and int() raises ValueError *)
SuperSegment == <<SuperTwo>>

(* 32 characters without a hyphen *)
HashSegment == [k \in 1..32 |-> "f"]

(* 21 characters without a hyphen *)
LongWordSegment == [k \in 1..21 |-> "w"]

(* 20 characters with a hyphen *)
ShortHyphenSegment == [k \in 1..20 |-> IF k = 9 THEN "-" ELSE "e"]

Segments ==
    {<<>>, WordSegment, NumberSegment, LeadingZeroSegment, SuperSegment,
     UuidSegment, HashSegment, LongWordSegment, ShortHyphenSegment}

(* the most segments of a path *)
MaxSegments == 2

(* "/" before every segment *)
RECURSIVE PathOf(_)
PathOf(segments) ==
    IF Len(segments) = 0 THEN <<>>
    ELSE <<"/">> \o segments[1] \o PathOf(Tail(segments))

Urls ==
    {HttpA \o PathOf(segments) :
        segments \in UNION {[1..n -> Segments] : n \in 0..MaxSegments}}

PathInit ==
    /\ url \in Urls
    /\ normalized = None
    /\ requests = <<>>
    /\ idx = 0
    /\ parsed = None
    /\ diagnostics = 0
    /\ paths = EmptyDict
    /\ servers = {}
    /\ pc = "idle"
    /\ spec = None
    /\ NoMain
    /\ NoInfer
    /\ NoUsage
    /\ NoDownload

(* normalize_path(url): what it returns, or that it raises *)
Normalize ==
    /\ normalized = None
    /\ normalized' = normalize_path(url)
    /\ UNCHANGED <<url, loopVars, mainVars, otherVars>>

PathNext == Normalize

PathSpec == PathInit /\ [][PathNext]_vars

----------------------------------------------------------------------------
(* One call of infer_schema_from_value on a JSON value *)

(* the nodes of the largest value *)
MaxSize == 4

(* the scalars: None, a bool, an int, a float, a str *)
Scalars ==
    {None, [bool |-> TRUE], [bool |-> FALSE], [int |-> 1], [float |-> 15],
     Str(<<"s">>)}

(* the keys of the objects, in the order of the members *)
ObjectKeys == << <<"a">>, <<"b">>, <<"c">>, <<"d">>, <<"e">> >>

(* the object whose members are the values of seq under the keys a, b, ... *)
ObjectOf(seq) == [dict |-> [k \in 1..Len(seq) |-> <<ObjectKeys[k], seq[k]>>]]

(* the values of n nodes, and the sequences of values of n nodes in all *)
RECURSIVE OfSize(_), SeqsOfSize(_)
OfSize(n) ==
    IF n = 1
    THEN Scalars \cup {[list |-> <<>>], EmptyDict}
    ELSE {[list |-> seq] : seq \in SeqsOfSize(n - 1)}
             \cup {ObjectOf(seq) : seq \in SeqsOfSize(n - 1)}

SeqsOfSize(n) ==
    IF n = 0 THEN {<<>>}
    ELSE UNION {{<<v>> \o seq : v \in OfSize(k), seq \in SeqsOfSize(n - k)} :
                    k \in 1..n}

JsonValues == UNION {OfSize(n) : n \in 1..MaxSize}

InferInit ==
    /\ infer_value \in JsonValues
    /\ infer_example \in BOOLEAN
    /\ inferred = None
    /\ requests = <<>>
    /\ idx = 0
    /\ parsed = None
    /\ diagnostics = 0
    /\ paths = EmptyDict
    /\ servers = {}
    /\ pc = "idle"
    /\ spec = None
    /\ NoMain
    /\ NoCall
    /\ NoUsage
    /\ NoDownload

(* infer_schema_from_value(value, example) returns *)
Infer ==
    /\ inferred = None
    /\ inferred' = infer_schema_from_value(infer_value, infer_example)
    /\ UNCHANGED <<infer_value, infer_example, loopVars, mainVars, pathVars,
                   usageVars, downloadVars>>

InferNext == Infer

InferSpec == InferInit /\ [][InferNext]_vars

----------------------------------------------------------------------------
(* track_usage.py: the processes that call track_skill_usage.  A process    *)
(* reads the data file in load_data and writes it in save_data; between the *)
(* two it works on its own copy.  The data holds what JSON holds, so what   *)
(* json.load returns is what json.dump was given.  A time is the reading of *)
(* a clock, in place of its isoformat text.  A load that meets a file being *)
(* written raises and the call does not return: such runs are left out.     *)

(* the calls of the process that calls one after another *)
MaxCalls == 2

SkillNames == {<<"a">>, <<"b">>}

(* the arguments of a call: --failed, --notes, --context-saved of main *)
CallArgs ==
    [skill_name : SkillNames,
     success : BOOLEAN,
     notes : {None, Str(<<"n">>)},
     context_saved : {None, [int |-> 0], [int |-> 5]}]

(* the function without arguments: the empty dict *)
NoEntries == [s \in {} |-> None]

(* load_data(data_file) at time t *)
load_data(file, t) ==
    IF file # None THEN file
    ELSE [skills |-> NoEntries, metadata |-> [created |-> t]]

(* the entry of a skill seen for the first time at time t *)
NewEntry(t) ==
    [total_invocations |-> 0,
     successful_invocations |-> 0,
     failed_invocations |-> 0,
     total_context_saved |-> 0,
     first_used |-> t,
     last_used |-> None,
     invocations |-> <<>>]

(* the counts with failures left uncounted *)
CountedSuccessOnly(entry, success) ==
    [entry EXCEPT !.total_invocations = @ + 1,
                  !.successful_invocations = IF success THEN @ + 1 ELSE @]

(* the counts after one more invocation *)
Counted(entry, success) ==
    [entry EXCEPT !.total_invocations = @ + 1,
                  !.successful_invocations = IF success THEN @ + 1 ELSE @,
                  !.failed_invocations = IF success THEN @ ELSE @ + 1]

(* the entry after `if context_saved is not None` *)
ContextAdded(entry, context_saved) ==
    IF context_saved # None
    THEN [entry EXCEPT !.total_context_saved = @ + context_saved.int]
    ELSE entry

(* the record of the invocation, made at time t *)
Invocation(args, t) ==
    [timestamp |-> t, success |-> args.success]
        @@ (IF Truthy(args.notes) THEN [notes |-> args.notes.str] ELSE <<>>)
        @@ (IF args.context_saved # None
            THEN [context_saved |-> args.context_saved.int]
            ELSE <<>>)

(* the entry of the skill in the data, a new one if it has none *)
EntryOf(data, skill_name, t) ==
    IF skill_name \in DOMAIN data.skills THEN data.skills[skill_name]
    ELSE NewEntry(t)

(* the data after lines 64-101 of track_skill_usage, which reads the clock  *)
(* at t for first_used, then for last_used, then for the timestamp          *)
Tracked(data, args, t) ==
    LET entry == ContextAdded(Counted(EntryOf(data, args.skill_name, t),
                                      args.success),
                              args.context_saved)
        updated == [entry EXCEPT
                       !.last_used = t + 1,
                       !.invocations = Append(@, Invocation(args, t + 2))]
    IN  [data EXCEPT !.skills =
            [s \in DOMAIN data.skills \cup {args.skill_name} |->
                IF s = args.skill_name THEN updated ELSE data.skills[s]]]

(* the clock readings of one call of track_skill_usage after load_data *)
ClockReadings == 3

(* the processes *)
Procs == DOMAIN remaining

(* the other programs of the module do not run *)
OnlyUsage ==
    /\ requests = <<>>
    /\ idx = 0
    /\ parsed = None
    /\ diagnostics = 0
    /\ paths = EmptyDict
    /\ servers = {}
    /\ pc = "idle"
    /\ spec = None
    /\ NoMain
    /\ NoCall
    /\ NoInfer
    /\ NoDownload

(* one process, calling MaxCalls times one after another, no data file *)
UsageInit ==
    /\ data_file = None
    /\ clock = 1
    /\ remaining = <<MaxCalls>>
    /\ calling = <<None>>
    /\ loaded = <<None>>
    /\ completed = <<>>
    /\ OnlyUsage

(* two processes, each calling once, no data file *)
RaceInit ==
    /\ data_file = None
    /\ clock = 1
    /\ remaining = <<1, 1>>
    /\ calling = <<None, None>>
    /\ loaded = <<None, None>>
    /\ completed = <<>>
    /\ OnlyUsage

(* lines 60-61: a process enters track_skill_usage and loads the data *)
Load(p) ==
    /\ calling[p] = None
    /\ remaining[p] > 0
    /\ \E args \in CallArgs : calling' = [calling EXCEPT ![p] = args]
    /\ loaded' = [loaded EXCEPT ![p] = load_data(data_file, clock)]
    /\ clock' = clock + 1
    /\ UNCHANGED <<data_file, remaining, completed, loopVars, mainVars,
                   pathVars, inferVars, downloadVars>>

(* lines 64-107: the process updates its copy, saves it and returns *)
SaveTracked(p) ==
    /\ calling[p] # None
    /\ data_file' = Tracked(loaded[p], calling[p], clock)
    /\ completed' = Append(completed,
                           [skill_name |-> calling[p].skill_name,
                            invocation |-> Invocation(calling[p], clock + 2)])
    /\ clock' = clock + ClockReadings
    /\ calling' = [calling EXCEPT ![p] = None]
    /\ loaded' = [loaded EXCEPT ![p] = None]
    /\ remaining' = [remaining EXCEPT ![p] = @ - 1]
    /\ UNCHANGED <<loopVars, mainVars, pathVars, inferVars, downloadVars>>

UsageNext ==
    \/ \E p \in Procs : Load(p)
    \/ \E p \in Procs : SaveTracked(p)

UsageSpec == UsageInit /\ [][UsageNext]_vars

RaceSpec == RaceInit /\ [][UsageNext]_vars

----------------------------------------------------------------------------
(* download_image.py: ImageDownloader.download_image from line 115 on, for  *)
(* a response that arrived.  A path is the name of a file inside            *)
(* output_dir, the empty name standing for output_dir itself, which exists  *)
(* since __init__.  "bsl" stands for the backslash and "ctl" for a control  *)
(* character.  File names that sanitize to ".." are left out.               *)

(* the characters of [<>:"/\\|?*] *)
UnsafeChars == {"<", ">", ":", "\"", "/", "bsl", "|", "?", "*"}

(* the characters of [\x00-\x1f\x7f] *)
ControlChars == {"ctl"}

(* the longest name sanitize_filename keeps before the extension *)
NameLimit == 200

(* s.rfind(c), counted from 1; 0 when c is not in s *)
RFind(s, c) ==
    IF \E i \in 1..Len(s) : s[i] = c
    THEN CHOOSE i \in 1..Len(s) : s[i] = c /\ \A j \in (i + 1)..Len(s) : s[j] # c
    ELSE 0

(* sanitize_filename(filename) *)
sanitize_filename(name) ==
    LET replaced == [i \in 1..Len(name) |->
                        IF name[i] \in UnsafeChars THEN "_" ELSE name[i]]
        kept == SelectSeq(replaced, LAMBDA c : c \notin ControlChars)
        dot == RFind(kept, ".")
        front == IF dot > 0 THEN SubSeq(kept, 1, dot - 1) ELSE kept
        ext == IF dot > 0 THEN SubSeq(kept, dot + 1, Len(kept)) ELSE <<>>
        cut == IF Len(front) > NameLimit THEN SubSeq(front, 1, NameLimit)
               ELSE front
    IN  IF Len(ext) > 0 THEN cut \o <<".">> \o ext ELSE cut

(* the name of output_dir *)
OutputDir == <<"o">>

(* self.output_dir / filename: an empty name or "." gives output_dir *)
JoinDir(name) == IF name \in {<<>>, <<".">>} THEN <<>> ELSE name

(* the last component of the path *)
PathName(path) == IF path = <<>> THEN OutputDir ELSE path

(* Path.suffix: from the last dot, unless it is the first or the last       *)
(* character of the name                                                    *)
PathSuffix(path) ==
    LET dot == RFind(PathName(path), ".")
    IN  IF 1 < dot /\ dot < Len(PathName(path))
        THEN SubSeq(PathName(path), dot, Len(PathName(path)))
        ELSE <<>>

(* Path.stem: the name without its suffix *)
PathStem(path) ==
    SubSeq(PathName(path), 1, Len(PathName(path)) - Len(PathSuffix(path)))

(* no path is taken *)
NeverExists(path, dir) == FALSE

(* output_path.exists() *)
Exists(path, dir) == path = <<>> \/ path \in DOMAIN dir

(* f"{original_stem}_{counter}{output_path.suffix}" *)
NumberedName(stemText, number, suffixText) ==
    stemText \o <<"_">> \o StrOfInt(number) \o suffixText

(* the numbered names put into the directory of a run *)
MaxCopies == 3

(* a name of more than NameLimit characters before its extension *)
LongName == [k \in 1..(NameLimit + 1) |-> "x"] \o <<".", "j", "p", "g">>

(* the `filename` that reaches line 115 *)
Filenames ==
    {<<"a", ".", "j", "p", "g">>, <<"a">>, <<".", "a">>, <<"a", ".", ".">>,
     <<"a", ".", "b", ".", "j", "p", "g">>, <<"a", "?", "ctl", ".", "j", "p", "g">>,
     <<"a", "bsl", "b">>, <<".">>, <<"a", "_", "1", ".", "j", "p", "g">>, LongName}

(* the sanitized name and its numbered names stem_k + suffix *)
NamesAround(name) ==
    {sanitize_filename(name)}
        \cup {NumberedName(PathStem(JoinDir(sanitize_filename(name))), k,
                           PathSuffix(JoinDir(sanitize_filename(name)))) :
                 k \in 1..MaxCopies}

(* the directories of a run: files written before it *)
DirectoriesFor(name) ==
    {[n \in taken |-> "old"] : taken \in SUBSET (NamesAround(name) \ {<<>>, <<".">>})}

DownloadInit ==
    /\ filename \in Filenames
    /\ directory \in DirectoriesFor(filename)
    /\ output_path = <<>>
    /\ original_stem = <<>>
    /\ counter = 0
    /\ dpc = "start"
    /\ requests = <<>>
    /\ idx = 0
    /\ parsed = None
    /\ diagnostics = 0
    /\ paths = EmptyDict
    /\ servers = {}
    /\ pc = "idle"
    /\ spec = None
    /\ NoMain
    /\ NoCall
    /\ NoInfer
    /\ NoUsage

(* lines 115-120: the first output path, the counter and the stem *)
ChoosePath ==
    /\ dpc = "start"
    /\ \E path \in {JoinDir(sanitize_filename(filename))} :
           /\ output_path' = path
           /\ original_stem' = PathStem(path)
    /\ counter' = 1
    /\ dpc' = "search"
    /\ UNCHANGED <<directory, filename, loopVars, mainVars, pathVars,
                   inferVars, usageVars>>

(* lines 121-123: the body of `while output_path.exists()` *)
NextName ==
    /\ dpc = "search"
    /\ Exists(output_path, directory)
    /\ output_path' = NumberedName(original_stem, counter, PathSuffix(output_path))
    /\ counter' = counter + 1
    /\ UNCHANGED <<directory, filename, original_stem, dpc, loopVars,
                   mainVars, pathVars, inferVars, usageVars>>

(* lines 126-131: the file is opened for writing, filled and returned *)
WriteFile ==
    /\ dpc = "search"
    /\ ~Exists(output_path, directory)
    /\ directory' = [n \in DOMAIN directory \cup {output_path} |->
                        IF n = output_path THEN "new" ELSE directory[n]]
    /\ dpc' = "written"
    /\ UNCHANGED <<filename, output_path, original_stem, counter, loopVars,
                   mainVars, pathVars, inferVars, usageVars>>

DownloadNext == ChoosePath \/ NextName \/ WriteFile

(* the call runs on: each step of the method is taken *)
DownloadSpec == DownloadInit /\ [][DownloadNext]_vars /\ WF_vars(DownloadNext)

----------------------------------------------------------------------------
(* Vocabulary of the properties *)

(* what parse_network_request returns for the k-th request *)
ParsedOf(k) == parse_network_request(requests[k]).value

Accepted(k) == ParsedOf(k) # None

(* the j-th and the k-th request are accepted and map to the same pair *)
SamePair(j, k) ==
    /\ Accepted(j)
    /\ Accepted(k)
    /\ ParsedOf(j).path = ParsedOf(k).path
    /\ ParsedOf(j).method = ParsedOf(k).method

(* the first accepted request of the pair of the k-th *)
FirstOfPair(k) ==
    CHOOSE j \in 1..k : SamePair(j, k) /\ \A i \in 1..(j - 1) : ~SamePair(i, k)

HasOperation(pathMap, path, method) ==
    HasKey(pathMap, path) /\ HasKey(Get(pathMap, path, EmptyDict), method)

OperationAt(pathMap, path, method) ==
    Get(Get(pathMap, path, EmptyDict), method, None)

RequestBodyIn(operation) ==
    IF "requestBody" \in DOMAIN operation THEN operation.requestBody ELSE None

(* every <<path, method, operation>> of a path map *)
OperationsOf(pathMap) ==
    {<<pathMap.dict[a][1], pathMap.dict[a][2].dict[b][1], pathMap.dict[a][2].dict[b][2]>> :
        <<a, b>> \in {<<a, b>> \in (1..Len(pathMap.dict)) \X (1..4) :
                        b <= Len(pathMap.dict[a][2].dict)}}

Names(params) == {params[a].name : a \in 1..Len(params)}

(* summary, responses and requestBody of the pair of the k-th request are   *)
(* those of the first accepted request of that pair                         *)
Governs(pathMap, k) ==
    LET first == Operation(ParsedOf(FirstOfPair(k)))
        op == OperationAt(pathMap, ParsedOf(k).path, ParsedOf(k).method)
    IN  /\ HasOperation(pathMap, ParsedOf(k).path, ParsedOf(k).method)
        /\ op.summary = first.summary
        /\ op.responses = first.responses
        /\ RequestBodyIn(op) = RequestBodyIn(first)

----------------------------------------------------------------------------
(* C1: once an operation is stored for a (path, method) pair, its summary,  *)
(* responses and requestBody stay those built from the first accepted       *)
(* exchange of the pair: after every iteration in the path map, and in the  *)
(* returned document.                                                       *)
C1_FirstExchangeGoverns ==
    /\ \A k \in 1..idx : Accepted(k) => Governs(paths, k)
    /\ pc = "done" =>
          \A k \in 1..Len(requests) : Accepted(k) => Governs(spec.paths, k)

(* a returned document for two accepted exchanges of one pair whose         *)
(* responses differ                                                         *)
C1_Witness ==
    /\ pc = "done"
    /\ \E j, k \in 1..Len(requests) :
          /\ j < k
          /\ SamePair(j, k)
          /\ ParsedOf(j).responses # ParsedOf(k).responses

(* C2: in the returned document no operation has two parameters of the same *)
(* name.                                                                    *)
C2_UniqueParameterNames ==
    pc = "done" =>
        \A o \in OperationsOf(spec.paths) :
            LET ps == StoredParameters(o[3])
            IN  \A a, b \in 1..Len(ps) : a # b => ps[a].name # ps[b].name

(* the step of the loop on a request whose pair is already stored *)
IsRepeat ==
    /\ pc = "loop"
    /\ idx < Len(requests)
    /\ Accepted(idx + 1)
    /\ HasOperation(paths, ParsedOf(idx + 1).path, ParsedOf(idx + 1).method)

(* C3: on a repeat every stored parameter keeps its content and position    *)
(* and the parameters of the repeat with a new name are appended; no stored *)
(* parameter is removed or replaced.                                        *)
C3_RepeatStep ==
    IsRepeat =>
        LET r == ParsedOf(idx + 1)
            old == StoredParameters(OperationAt(paths, r.path, r.method))
            new == StoredParameters(OperationAt(paths', r.path, r.method))
        IN  /\ Len(new) >= Len(old)
            /\ SubSeq(new, 1, Len(old)) = old
            /\ Names(new) = Names(old) \cup Names(Parameters(r))
            /\ \A a \in (Len(old) + 1)..Len(new) :
                  /\ new[a].name \notin Names(old)
                  /\ \E b \in 1..Len(Parameters(r)) : Parameters(r)[b] = new[a]

C3_RepeatKeepsStoredParameters == [][C3_RepeatStep]_vars

(* C4: generate_openapi_spec([e, e]) is the document of                     *)
(* generate_openapi_spec([e]) for every accepted exchange e.                *)
C4_RepeatedExchangeIdempotent ==
    (/\ pc = "done"
     /\ Len(requests) = 2
     /\ requests[1] = requests[2]
     /\ Accepted(1))
        => spec = generate_openapi_spec(<<requests[1]>>)

(* the url paths of the two requests differ in one segment only, which is   *)
(* decimal digits in both                                                   *)
DifferInOneDigitSegment(e1, e2) ==
    LET p1 == Split(urlparse(Get(e1, KUrl, Str(<<>>)).str).path, "/")
        p2 == Split(urlparse(Get(e2, KUrl, Str(<<>>)).str).path, "/")
    IN  /\ Len(p1) = Len(p2)
        /\ \E i \in 1..Len(p1) :
              /\ p1[i] # p2[i]
              /\ IsDigit(p1[i]) /\ ~IntRaises(p1[i])
              /\ IsDigit(p2[i]) /\ ~IntRaises(p2[i])
              /\ \A j \in 1..Len(p1) : j # i => p1[j] = p2[j]

(* the segment of the first request in which the two differ *)
DifferingSegment(e1, e2) ==
    LET p1 == Split(urlparse(Get(e1, KUrl, Str(<<>>)).str).path, "/")
        p2 == Split(urlparse(Get(e2, KUrl, Str(<<>>)).str).path, "/")
    IN  p1[CHOOSE i \in 1..Len(p1) : p1[i] # p2[i]]

SameOriginAndMethod(e1, e2) ==
    LET u1 == urlparse(Get(e1, KUrl, Str(<<>>)).str)
        u2 == urlparse(Get(e2, KUrl, Str(<<>>)).str)
    IN  /\ u1.scheme = u2.scheme
        /\ u1.netloc = u2.netloc
        /\ Get(e1, KMethod, Str(SGet)) = Get(e2, KMethod, Str(SGet))

(* C5: for two accepted exchanges of one origin and method whose paths      *)
(* differ only in the value of an all-digit segment the document has one    *)
(* path, one operation, exactly one parameter named id, of type integer,    *)
(* with the value of the first exchange as example, and the responses of    *)
(* the first exchange.                                                      *)
C5_TwoIdsOneOperation ==
    (/\ pc = "done"
     /\ Len(requests) = 2
     /\ Accepted(1)
     /\ Accepted(2)
     /\ SameOriginAndMethod(requests[1], requests[2])
     /\ DifferInOneDigitSegment(requests[1], requests[2]))
        => /\ Len(spec.paths.dict) = 1
           /\ Contains(IdPlaceholder, spec.paths.dict[1][1])
           /\ Len(spec.paths.dict[1][2].dict) = 1
           /\ LET op == spec.paths.dict[1][2].dict[1][2]
                  ps == StoredParameters(op)
                  ids == {a \in 1..Len(ps) : ps[a].name = SId}
              IN  /\ Cardinality(ids) = 1
                  /\ \A a \in ids :
                        /\ ps[a].schema = [type |-> "integer"]
                        /\ ps[a].example =
                             [int |-> IntOf(DifferingSegment(requests[1], requests[2]))]
                  /\ op.responses = ParsedOf(1).responses

(* the exchange makes parse_network_request print its diagnostic *)
Fails(e) == parse_network_request(e).error

NotFailing(e) == ~Fails(e)

(* C6: an exchange whose parsing fails unexpectedly is a skip: after every  *)
(* iteration the path map and the server set are those of the requests      *)
(* taken so far without the failing ones, and the returned document is the  *)
(* document of the input list without the failing exchanges.                *)
C6_FailedExchangesAreSkipped ==
    /\ LET a == Aggregate(SelectSeq(SubSeq(requests, 1, idx), NotFailing),
                          EmptyDict, {})
       IN  paths = a.paths /\ servers = a.servers
    /\ pc = "done" =>
          spec = generate_openapi_spec(SelectSeq(requests, NotFailing))

(* a returned document for a list with a failing exchange before an         *)
(* accepted one                                                             *)
C6_Witness ==
    /\ pc = "done"
    /\ diagnostics > 0
    /\ \E j, k \in 1..Len(requests) : j < k /\ Fails(requests[j]) /\ Accepted(k)

(* the request reaches json.loads(post_data) *)
LoadsPostData(e) ==
    /\ IsDict(e)
    /\ IsDict(Get(e, KRequestHeaders, EmptyDict))
    /\ Truthy(Get(e, KPostData, None))
    /\ LET content_type == Get(Get(e, KRequestHeaders, EmptyDict), KContentType, Str(<<>>))
       IN  ~InRaises(content_type) /\ InValue(SAppJson, content_type)

(* the request reaches json.loads(response_body) *)
LoadsResponseBody(e) ==
    /\ IsDict(e)
    /\ IsDict(Get(e, KResponse, EmptyDict))
    /\ Truthy(Get(Get(e, KResponse, EmptyDict), KBody, None))
    /\ IsDict(Get(Get(e, KResponse, EmptyDict), KHeaders, EmptyDict))
    /\ LET content_type == Get(Get(Get(e, KResponse, EmptyDict), KHeaders, EmptyDict),
                               KContentType, Str(<<>>))
       IN  ~InRaises(content_type) /\ InValue(SAppJson, content_type)

PostDataOf(e) == Get(e, KPostData, None)

ResponseBodyOf(e) == Get(Get(e, KResponse, EmptyDict), KBody, None)

(* json.loads raises JSONDecodeError: the body is a text that is not JSON *)
PostDataDecodeError(e) ==
    LoadsPostData(e) /\ IsStr(PostDataOf(e)) /\ ~json_loads(PostDataOf(e).str).ok

ResponseBodyDecodeError(e) ==
    LoadsResponseBody(e) /\ IsStr(ResponseBodyOf(e))
        /\ ~json_loads(ResponseBodyOf(e).str).ok

(* json.loads raises TypeError: the body is not a text *)
PostDataTypeError(e) == LoadsPostData(e) /\ ~IsStr(PostDataOf(e))

ResponseBodyTypeError(e) == LoadsResponseBody(e) /\ ~IsStr(ResponseBodyOf(e))

BodyParsingRaises(e) ==
    \/ PostDataDecodeError(e)
    \/ ResponseBodyDecodeError(e)
    \/ PostDataTypeError(e)
    \/ ResponseBodyTypeError(e)

NoBodyParsingRaises(e) == ~BodyParsingRaises(e)

BodyTypeError(e) == PostDataTypeError(e) \/ ResponseBodyTypeError(e)

NoBodyTypeError(e) == ~BodyTypeError(e)

(* C7, as claimed: an exchange whose request-body or response-body parsing  *)
(* raises contributes nothing to the returned document.                     *)
C7_BodyRaiseDropsExchange ==
    pc = "done" =>
        spec = generate_openapi_spec(SelectSeq(requests, NoBodyParsingRaises))

(* C7, amended: an exchange whose request-body or response-body parsing     *)
(* raises an exception other than JSONDecodeError (TypeError for a body     *)
(* that is not a text) contributes nothing to the returned document.        *)
C7_BodyTypeErrorDropsExchange ==
    pc = "done" =>
        /\ spec = generate_openapi_spec(SelectSeq(requests, NoBodyTypeError))
        /\ \A k \in 1..Len(requests) : BodyTypeError(requests[k]) => ~Accepted(k)

(* a returned document for a list with an exchange whose body is not a text *)
(* and an accepted exchange                                                 *)
C7_Witness ==
    /\ pc = "done"
    /\ \E j, k \in 1..Len(requests) : BodyTypeError(requests[j]) /\ Accepted(k)
    /\ Len(spec.paths.dict) > 0

(* the request without one of its keys *)
WithoutKey(e, key) == [dict |-> SelectSeq(e.dict, LAMBDA f : f[1] # key)]

(* postData is a text that parses as JSON under a JSON content type *)
JsonPostData(e) ==
    LoadsPostData(e) /\ IsStr(PostDataOf(e)) /\ json_loads(PostDataOf(e).str).ok

(* C8: the operation of an accepted exchange has a requestBody exactly when *)
(* postData is non-empty, the request content-type contains                 *)
(* application/json and postData parses as JSON, and it is the schema       *)
(* inferred without examples; a postData text that fails to parse is as if  *)
(* there were no postData: no requestBody, the exchange accepted as without *)
(* it.                                                                      *)
C8_RequestBodyExactlyWhenJson ==
    idx > 0 =>
        LET e == requests[idx]
        IN  /\ parsed # None =>
                 /\ (parsed.request_body # None) <=> JsonPostData(e)
                 /\ ("requestBody" \in DOMAIN Operation(parsed)) <=> JsonPostData(e)
                 /\ JsonPostData(e) =>
                       Operation(parsed).requestBody =
                          [content |-> [application_json |->
                             [schema |-> infer_schema_from_value(
                                            json_loads(PostDataOf(e).str).value, FALSE)]]]
            /\ (IsDict(e) /\ PostDataDecodeError(e)) =>
                  parsed = parse_network_request(WithoutKey(e, KPostData)).value

(* an accepted exchange whose postData is not JSON *)
C8_Witness ==
    /\ idx > 0
    /\ PostDataDecodeError(requests[idx])
    /\ parsed # None
    /\ parsed.request_body = None
    /\ Len(parsed.responses.dict) > 0

(* C9: an accepted exchange whose response body is a text that is not JSON  *)
(* has the responses map {"200": {"description": "Successful response"}},   *)
(* whatever the body and the status.                                        *)
C9_UnparsableResponseIsGeneric ==
    (/\ idx > 0
     /\ parsed # None
     /\ IsStr(ResponseBodyOf(requests[idx]))
     /\ ~json_loads(ResponseBodyOf(requests[idx]).str).ok)
        => parsed.responses = GenericResponses

(* an accepted exchange with status 500 and a JSON content type whose body  *)
(* is not JSON                                                              *)
C9_Witness ==
    /\ idx > 0
    /\ parsed # None
    /\ ResponseBodyDecodeError(requests[idx])
    /\ Get(Get(requests[idx], KResponse, EmptyDict), KStatus, [int |-> 200]) # [int |-> 200]

(* no "example" key at any level of a schema *)
RECURSIVE NoExample(_)
NoExample(schema) ==
    /\ "example" \notin DOMAIN schema
    /\ "items" \in DOMAIN schema => NoExample(schema.items)
    /\ "properties" \in DOMAIN schema =>
          \A a \in 1..Len(schema.properties.dict) :
              NoExample(schema.properties.dict[a][2])

(* the response body is a text that parses as JSON under a JSON content type *)
JsonResponseBody(e) ==
    /\ LoadsResponseBody(e)
    /\ IsStr(Get(Get(Get(e, KResponse, EmptyDict), KHeaders, EmptyDict),
                 KContentType, Str(<<>>)))
    /\ IsStr(ResponseBodyOf(e))
    /\ json_loads(ResponseBodyOf(e).str).ok

StatusOf(e) == Get(Get(e, KResponse, EmptyDict), KStatus, [int |-> 200])

(* C10: for an accepted exchange with a JSON response content type and a    *)
(* body that parses as JSON the responses map has exactly one entry, keyed  *)
(* by the string form of the observed status, whose application/json schema *)
(* is the schema inferred from the parsed body, without example fields.     *)
C10_ResponseKeyedByStatus ==
    (idx > 0 /\ parsed # None /\ JsonResponseBody(requests[idx])) =>
        LET e == requests[idx]
            entries == parsed.responses.dict
        IN  /\ Len(entries) = 1
            /\ entries[1][1] = PyStr(StatusOf(e))
            /\ DOMAIN entries[1][2] = {"description", "content"}
            /\ DOMAIN entries[1][2].content = {"application_json"}
            /\ entries[1][2].content.application_json.schema =
                  infer_schema_from_value(json_loads(ResponseBodyOf(e).str).value, FALSE)
            /\ NoExample(entries[1][2].content.application_json.schema)

(* an accepted exchange with a JSON response and a status other than 200 *)
C10_Witness ==
    /\ idx > 0
    /\ parsed # None
    /\ JsonResponseBody(requests[idx])
    /\ StatusOf(requests[idx]) # [int |-> 200]
    /\ parsed.responses.dict[1][1] # S200

----------------------------------------------------------------------------
UrlOf(e) == Get(e, KUrl, Str(<<>>))

(* the text occurs in s at some position *)
OccursIn(text, s) ==
    \E i \in 1..(Len(s) - Len(text) + 1) : SubSeq(s, i, i + Len(text) - 1) = text

(* one of the eight extensions occurs somewhere in the url *)
UrlHasStaticExtension(e) ==
    /\ IsStr(UrlOf(e))
    /\ \E k \in 1..Len(StaticExtensions) : OccursIn(StaticExtensions[k], UrlOf(e).str)

NoStaticExtension(e) == ~UrlHasStaticExtension(e)

(* scheme://host[:port] of the url of the request *)
OriginOf(e) ==
    LET u == urlparse(UrlOf(e).str)
    IN  u.scheme \o <<":", "/", "/">> \o u.netloc

(* C11: an exchange whose url contains .css, .js, .png, .jpg, .gif, .svg,   *)
(* .woff or .ttf anywhere is skipped: the path map, the server set and the  *)
(* returned document are those of the input without these exchanges; an     *)
(* exchange whose url contains none of them is not skipped silently.        *)
C11_StaticUrlsAreSkipped ==
    /\ \A k \in 1..Len(requests) : UrlHasStaticExtension(requests[k]) => ~Accepted(k)
    /\ LET a == Aggregate(SelectSeq(SubSeq(requests, 1, idx), NoStaticExtension),
                          EmptyDict, {})
       IN  paths = a.paths /\ servers = a.servers
    /\ pc = "done" =>
          spec = generate_openapi_spec(SelectSeq(requests, NoStaticExtension))
    /\ \A k \in 1..Len(requests) :
          parse_network_request(requests[k]) = Skipped
              => UrlHasStaticExtension(requests[k])

(* a returned document for a list with an accepted exchange and an exchange *)
(* whose extension is in the query string only, the only one of its origin  *)
C11_Witness ==
    /\ pc = "done"
    /\ Len(spec.paths.dict) > 0
    /\ \E j \in 1..Len(requests) :
          /\ UrlHasStaticExtension(requests[j])
          /\ \A k \in 1..Len(StaticExtensions) :
                ~OccursIn(StaticExtensions[k], urlparse(UrlOf(requests[j]).str).path)
          /\ \A a \in 1..Len(spec.servers) : spec.servers[a].url # OriginOf(requests[j])

(* the origins of the accepted requests among the first n *)
AcceptedOrigins(n) == {OriginOf(requests[k]) : k \in {k \in 1..n : Accepted(k)}}

(* C12: the servers of the returned document are exactly the origins of the *)
(* accepted exchanges, each once, in ascending lexicographic order; the     *)
(* server set of the loop holds the origins of the accepted exchanges taken *)
(* so far.                                                                  *)
C12_ServersAreSortedOrigins ==
    /\ servers = AcceptedOrigins(idx)
    /\ pc = "done" =>
          /\ {spec.servers[a].url : a \in 1..Len(spec.servers)}
                = AcceptedOrigins(Len(requests))
          /\ \A a \in 1..Len(spec.servers) : DOMAIN spec.servers[a] = {"url"}
          /\ \A a, b \in 1..Len(spec.servers) :
                a < b => StrLess(spec.servers[a].url, spec.servers[b].url)

(* a returned document with two servers, the greater one seen first *)
C12_Witness ==
    /\ pc = "done"
    /\ Len(spec.servers) = 2
    /\ Len(requests) = 2
    /\ Accepted(1)
    /\ Accepted(2)
    /\ StrLess(OriginOf(requests[2]), OriginOf(requests[1]))

(* the method of the request, GET when the key is absent *)
MethodOf(e) == Get(e, KMethod, Str(SGet))

HasUpperCase(s) == \E a \in 1..Len(s) : \E k \in 1..26 : s[a] = UpperChars[k]

(* the j-th and the k-th request are accepted, have the same normalized     *)
(* path, and their methods differ at most in letter case                    *)
SameCallIgnoringCase(j, k) ==
    /\ Accepted(j)
    /\ Accepted(k)
    /\ ParsedOf(j).path = ParsedOf(k).path
    /\ Upper(MethodOf(requests[j]).str) = Upper(MethodOf(requests[k]).str)

(* the methods of the path of the k-th request have one key that is its     *)
(* method up to letter case, and that key is in lower case                  *)
OneLowerCaseKey(pathMap, k) ==
    LET methods == Get(pathMap, ParsedOf(k).path, EmptyDict).dict
        same == {a \in 1..Len(methods) :
                    Upper(methods[a][1]) = Upper(MethodOf(requests[k]).str)}
    IN  /\ Cardinality(same) = 1
        /\ \A a \in same : ~HasUpperCase(methods[a][1])

(* C13: the method of an accepted exchange is that of the request in lower  *)
(* case, get when the request has none; exchanges of one normalized path    *)
(* whose methods differ only in letter case share one operation, stored     *)
(* under the lower-case method, in the path map and in the returned         *)
(* document.                                                                *)
C13_MethodLowerCasedDefaultGet ==
    /\ \A k \in 1..Len(requests) :
          Accepted(k) =>
             /\ ~HasUpperCase(ParsedOf(k).method)
             /\ Upper(ParsedOf(k).method) = Upper(MethodOf(requests[k]).str)
             /\ ~HasKey(requests[k], KMethod) => ParsedOf(k).method = <<"g", "e", "t">>
    /\ \A j, k \in 1..idx :
          SameCallIgnoringCase(j, k) =>
             /\ OneLowerCaseKey(paths, k)
             /\ ParsedOf(j).method = ParsedOf(k).method
    /\ pc = "done" =>
          \A k \in 1..Len(requests) : Accepted(k) => OneLowerCaseKey(spec.paths, k)

(* a returned document for two accepted exchanges of one path whose method  *)
(* texts differ in letter case                                              *)
C13_Witness ==
    /\ pc = "done"
    /\ Len(requests) = 2
    /\ SameCallIgnoringCase(1, 2)
    /\ MethodOf(requests[1]) # MethodOf(requests[2])
    /\ Len(spec.paths.dict) = 1
    /\ Len(spec.paths.dict[1][2].dict) = 1

(* the key=value fields of the query string of the request, in order *)
QueryFieldsOf(e) ==
    SelectSeq(Split(urlparse(UrlOf(e).str).query, "&"), LAMBDA f : Len(f) > 0)

(* the text of a field before its first "=" *)
FieldKey(f) == IF Find(f, "=") = 0 THEN f ELSE SubSeq(f, 1, Find(f, "=") - 1)

(* the text of a field after its first "=", empty when there is none *)
FieldValue(f) == IF Find(f, "=") = 0 THEN <<>> ELSE SubSeq(f, Find(f, "=") + 1, Len(f))

(* the value of the first field with the key *)
FirstValue(fields, key) ==
    FieldValue(fields[CHOOSE a \in 1..Len(fields) :
                         /\ FieldKey(fields[a]) = key
                         /\ \A b \in 1..(a - 1) : FieldKey(fields[b]) # key])

(* C14: an accepted exchange has exactly one query parameter for each       *)
(* distinct key of its query string, keys with an empty value included,     *)
(* with location query, schema type string, and the first value of the key  *)
(* as example.                                                              *)
C14_OneQueryParameterPerKey ==
    (idx > 0 /\ parsed # None) =>
        LET fields == QueryFieldsOf(requests[idx])
            keys == {FieldKey(fields[a]) : a \in 1..Len(fields)}
            qp == parsed.query_params
        IN  /\ Names(qp) = keys
            /\ Len(qp) = Cardinality(keys)
            /\ \A a \in 1..Len(qp) :
                  /\ qp[a]["in"] = "query"
                  /\ qp[a].schema = [type |-> "string"]
                  /\ qp[a].name \in keys
                        => qp[a].example = Str(FirstValue(fields, qp[a].name))

(* C15: the paths of the returned document are the normalized paths of the  *)
(* accepted exchanges, each with the methods the loop stored for it, in     *)
(* ascending lexicographic order of the path, whatever the order in which   *)
(* the exchanges came.                                                      *)
C15_PathsSorted ==
    pc = "done" =>
        LET out == spec.paths.dict
        IN  /\ {out[a][1] : a \in 1..Len(out)}
                  = {ParsedOf(k).path : k \in {k \in 1..Len(requests) : Accepted(k)}}
            /\ \A a \in 1..Len(out) : out[a][2] = Get(paths, out[a][1], None)
            /\ \A a, b \in 1..Len(out) : a < b => StrLess(out[a][1], out[b][1])

(* a returned document with two paths that the loop stored in descending    *)
(* order                                                                    *)
C15_Witness ==
    /\ pc = "done"
    /\ Len(paths.dict) = 2
    /\ StrLess(paths.dict[2][1], paths.dict[1][1])
    /\ spec.paths.dict[1][1] = paths.dict[2][1]

----------------------------------------------------------------------------
(* the lines main printed to sys.stderr *)
Printed(text) == \E a \in 1..Len(stderr) : stderr[a] = text

(* C16: when the value read from the input file is not a list, main prints  *)
(* its error and exits with a non-zero status; generate_openapi_spec is     *)
(* never called, no file is opened for writing and nothing is printed to    *)
(* standard output, and the error exit is reached in no other case.         *)
C16_NotAListExitsBeforeOutput ==
    /\ (mpc # "none" /\ Len(argv) >= 2 /\ ~IsList(input)) =>
          /\ pc = "idle"
          /\ idx = 0
          /\ spec = None
          /\ files = {}
          /\ stdout = <<>>
          /\ mpc = "start" => ENABLED RejectNotList
          /\ mpc # "start" =>
                /\ mpc = "exit"
                /\ exit_status = [int |-> 1]
                /\ stderr = <<NotAListError>>
    /\ Printed(NotAListError) =>
          /\ ~IsList(input)
          /\ exit_status # [int |-> 0]
          /\ files = {}
          /\ stdout = <<>>

(* the error exit of a run with an output file whose input is a JSON object *)
C16_Witness ==
    /\ mpc = "exit"
    /\ Len(argv) = 3
    /\ IsDict(input)
    /\ Printed(NotAListError)
    /\ exit_status = [int |-> 1]

(* C17: a run asked for a .yaml or .yml file without an importable yaml     *)
(* module ends with status 0, has written the specification as JSON and not *)
(* the requested file, has told which format was written, and has printed   *)
(* the report of the normal write paths.                                    *)
C17_YamlFallbackReportsSuccess ==
    (/\ mpc = "exit"
     /\ Len(argv) > 2
     /\ IsList(input)
     /\ WantsYaml
     /\ ~yaml_importable)
        => /\ files = {[name |-> FallbackName, json |-> spec]}
           /\ FallbackName # argv[3]
           /\ exit_status = [int |-> 0]
           /\ Printed(YamlWarning)
           /\ \E a \in 1..Len(stdout) : stdout[a] = WrittenTo(FallbackName)

----------------------------------------------------------------------------
(* the segments of the path of the url, and of the normalized path *)
PathSegments == Split(urlparse(url).path, "/")

OutSegments == Split(normalized.path, "/")

(* a non-empty segment of decimal digits *)
AllDigits(segment) ==
    Len(segment) > 0 /\ \A k \in 1..Len(segment) : segment[k] \in DigitChars

(* not all digits, longer than 20, and with a hyphen or of length 32 *)
UuidLike(segment) ==
    /\ ~AllDigits(segment)
    /\ Len(segment) > 20
    /\ ((\E k \in 1..Len(segment) : segment[k] = "-") \/ Len(segment) = 32)

Qualifies(segment) == AllDigits(segment) \/ UuidLike(segment)

(* the number a segment of decimal digits writes *)
RECURSIVE DecimalValue(_)
DecimalValue(segment) ==
    IF Len(segment) = 0 THEN 0
    ELSE 10 * DecimalValue(SubSeq(segment, 1, Len(segment) - 1))
            + ((CHOOSE d \in 1..10 :
                   <<"0", "1", "2", "3", "4", "5", "6", "7", "8", "9">>[d]
                      = segment[Len(segment)]) - 1)

(* schema and example of the parameter of a qualifying segment *)
SchemaOf(segment) ==
    IF AllDigits(segment) THEN [type |-> "integer"]
    ELSE [type |-> "string", format |-> "uuid"]

ExampleOf(segment) ==
    IF AllDigits(segment) THEN [int |-> DecimalValue(segment)] ELSE Str(segment)

(* the parameter map holds one parameter, named id, of that segment *)
OnlyIdOf(path_params, segment) ==
    /\ Len(path_params.dict) = 1
    /\ path_params.dict[1][1] = SId
    /\ path_params.dict[1][2].name = SId
    /\ path_params.dict[1][2].schema = SchemaOf(segment)
    /\ path_params.dict[1][2].example = ExampleOf(segment)

(* C18: for a path with at least one qualifying segment normalize_path      *)
(* replaces every qualifying segment by {id} and returns a parameter map    *)
(* with exactly one entry, named id, with the schema and the example of the *)
(* last qualifying segment.                                                 *)
C18_LastQualifyingSegmentWins ==
    (normalized # None /\ \E i \in 1..Len(PathSegments) : Qualifies(PathSegments[i])) =>
        /\ ~normalized.raises
        /\ Len(OutSegments) = Len(PathSegments)
        /\ \A i \in 1..Len(PathSegments) :
              Qualifies(PathSegments[i]) => OutSegments[i] = IdPlaceholder
        /\ LET last == CHOOSE i \in 1..Len(PathSegments) :
                          /\ Qualifies(PathSegments[i])
                          /\ \A j \in (i + 1)..Len(PathSegments) :
                                ~Qualifies(PathSegments[j])
           IN  OnlyIdOf(normalized.path_params, PathSegments[last])

(* the url without its last path segment *)
ShorterUrl == SubSeq(url, 1, Len(url) - Len(PathSegments[Len(PathSegments)]) - 1)

(* C19: normalize_path turns every all-digit segment and, of the others,    *)
(* every segment longer than 20 with a hyphen or of length 32 into {id} and *)
(* keeps every other segment as it is; the last segment of the path leaves  *)
(* the integer parameter with its value, or the uuid string parameter with  *)
(* its text, or, when it is kept, the parameters of the path before it.     *)
C19_SegmentClassification ==
    normalized # None =>
        /\ ~normalized.raises
        /\ Len(OutSegments) = Len(PathSegments)
        /\ \A i \in 1..Len(PathSegments) :
              OutSegments[i] = IF Qualifies(PathSegments[i]) THEN IdPlaceholder
                               ELSE PathSegments[i]
        /\ LET last == PathSegments[Len(PathSegments)]
           IN  IF Qualifies(last)
               THEN OnlyIdOf(normalized.path_params, last)
               ELSE normalized.path_params =
                       IF Len(PathSegments) > 1
                       THEN normalize_path(ShorterUrl).path_params
                       ELSE EmptyDict

(* C20: the normalized path has as many segments as the path of the url,    *)
(* empty exactly where the path has an empty segment, and is the path       *)
(* itself when no segment qualifies.                                        *)
C20_EmptySegmentsPreserved ==
    normalized # None =>
        /\ ~normalized.raises
        /\ Len(OutSegments) = Len(PathSegments)
        /\ \A i \in 1..Len(PathSegments) :
              (PathSegments[i] = <<>>) <=> (OutSegments[i] = <<>>)
        /\ (\A i \in 1..Len(PathSegments) : ~Qualifies(PathSegments[i]))
              => normalized.path = urlparse(url).path

----------------------------------------------------------------------------
(* Claims on infer_schema_from_value *)

(* the call has returned *)
Inferred == inferred # None

IsScalar(v) == DOMAIN v \in {{"null"}, {"bool"}, {"int"}, {"float"}, {"str"}}

(* the JSON type of a scalar by its dynamic type *)
JsonTypeOf(v) ==
    CASE DOMAIN v = {"null"}  -> "null"
      [] DOMAIN v = {"bool"}  -> "boolean"
      [] DOMAIN v = {"int"}   -> "integer"
      [] DOMAIN v = {"float"} -> "number"
      [] DOMAIN v = {"str"}   -> "string"

(* C21: for every JSON scalar, infer_schema_from_value returns the type of  *)
(* its dynamic type, boolean tested before integer: true and false give     *)
(* boolean, never integer; integers give integer, floats number, strings    *)
(* string, null gives null.                                                 *)
C21_ScalarTypes ==
    (Inferred /\ IsScalar(infer_value)) =>
        /\ inferred.type = JsonTypeOf(infer_value)
        /\ DOMAIN infer_value = {"bool"} => inferred.type # "integer"

(* the call on true has returned boolean *)
C21_Witness ==
    /\ Inferred
    /\ infer_value = [bool |-> TRUE]
    /\ inferred.type = "boolean"

IsArray(v) == DOMAIN v = {"list"}

(* C22: for a non-empty array the items schema is the schema inferred from  *)
(* the first element with the same example flag, and it is the items schema *)
(* of the array cut after its first element, so that no later element       *)
(* matters; for the empty array the result is type array with an empty      *)
(* items schema and no example.                                             *)
C22_ItemsFromFirstElement ==
    (Inferred /\ IsArray(infer_value)) =>
        IF Len(infer_value.list) = 0
        THEN inferred = [type |-> "array", items |-> <<>>]
        ELSE /\ inferred.type = "array"
             /\ inferred.items =
                    infer_schema_from_value(infer_value.list[1], infer_example)
             /\ inferred.items =
                    infer_schema_from_value(
                        [list |-> <<infer_value.list[1]>>], infer_example).items

(* the call on an array whose later elements differ from the first, with    *)
(* examples, has returned                                                   *)
C22_Witness ==
    /\ Inferred
    /\ infer_example
    /\ infer_value = [list |-> <<[int |-> 1], Str(<<"s">>), None>>]
    /\ inferred.items = [type |-> "integer", example |-> [int |-> 1]]

IsObject(v) == DOMAIN v = {"dict"}

(* the keys listed in `required` of a schema *)
RequiredOf(schema) ==
    IF "required" \in DOMAIN schema
    THEN {schema.required[k] : k \in 1..Len(schema.required)}
    ELSE {}

(* C23: for every JSON object the result is type object with one property   *)
(* schema per key, and a key is listed in required if and only if its value *)
(* is not null: keys with null values are in properties, not in required.   *)
C23_RequiredIffNonNull ==
    (Inferred /\ IsObject(infer_value)) =>
        LET members == infer_value.dict
        IN  /\ inferred.type = "object"
            /\ Len(inferred.properties.dict) = Len(members)
            /\ \A k \in 1..Len(members) :
                   /\ inferred.properties.dict[k][1] = members[k][1]
                   /\ inferred.properties.dict[k][2] =
                          infer_schema_from_value(members[k][2], infer_example)
                   /\ members[k][1] \in RequiredOf(inferred)
                          <=> members[k][2] # None
            /\ RequiredOf(inferred) \subseteq {members[k][1] : k \in 1..Len(members)}

(* the call on an object with a null member and a non-null member has       *)
(* returned                                                                 *)
C23_Witness ==
    /\ Inferred
    /\ infer_value = ObjectOf(<<None, [int |-> 1]>>)
    /\ inferred.required = << <<"b">> >>
    /\ Len(inferred.properties.dict) = 2

(* a JSON text of the value, without white space *)
RECURSIVE JsonText(_), JsonTexts(_, _)
JsonText(v) ==
    CASE DOMAIN v = {"null"}  -> SNull
      [] DOMAIN v = {"bool"}  -> IF v.bool THEN STrue ELSE SFalse
      [] DOMAIN v = {"int"}   -> StrOfInt(v.int)
      [] DOMAIN v = {"float"} ->
             StrOfInt(v.float \div 10) \o <<".">> \o StrOfInt(v.float % 10)
      [] DOMAIN v = {"str"}   -> <<"\"">> \o v.str \o <<"\"">>
      [] DOMAIN v = {"list"}  -> <<"[">> \o JsonTexts(v.list, FALSE) \o <<"]">>
      [] DOMAIN v = {"dict"}  -> <<"{">> \o JsonTexts(v.dict, TRUE) \o <<"}">>

(* the texts of the elements, or of the members, separated by commas *)
JsonTexts(seq, members) ==
    IF Len(seq) = 0 THEN <<>>
    ELSE (IF members
          THEN <<"\"">> \o seq[1][1] \o <<"\"", ":">> \o JsonText(seq[1][2])
          ELSE JsonText(seq[1]))
             \o (IF Len(seq) > 1 THEN <<",">> ELSE <<>>)
             \o JsonTexts(Tail(seq), members)

(* an exchange whose JSON request body and JSON response body are the value *)
ExchangeCarrying(v) ==
    [dict |-> Field(KUrl, Str(HttpA \o <<"/", "u">>))
              \o Field(KMethod, Str(SPost))
              \o Field(KRequestHeaders, ContentType(SAppJson))
              \o Field(KPostData, Str(JsonText(v)))
              \o Field(KResponse, Response(200, SAppJson, Str(JsonText(v))))]

(* the request-body and response schemas of an operation *)
SchemasIn(operation) ==
    (IF "requestBody" \in DOMAIN operation
     THEN {operation.requestBody.content.application_json.schema}
     ELSE {})
    \cup {operation.responses.dict[k][2].content.application_json.schema :
             k \in {j \in 1..Len(operation.responses.dict) :
                       "content" \in DOMAIN operation.responses.dict[j][2]}}

(* the request-body and response schemas of a document *)
DocumentSchemas(document) ==
    UNION {SchemasIn(entry[3]) : entry \in OperationsOf(document.paths)}

(* C24: for every JSON value, the schema returned with example=False has no *)
(* example field at any level (root, array items, object properties); so    *)
(* the document aggregated from an exchange that carries the value as its   *)
(* JSON request body and JSON response body has that schema as its          *)
(* request-body and response schemas, and none of them has an example.      *)
C24_NoExampleWithoutFlag ==
    (Inferred /\ ~infer_example) =>
        /\ NoExample(inferred)
        /\ \E document \in
               {generate_openapi_spec(<<ExchangeCarrying(infer_value)>>)} :
               /\ DocumentSchemas(document) = {inferred}
               /\ \A schema \in DocumentSchemas(document) : NoExample(schema)

(* the call without examples on an array of an object that holds an array   *)
(* has returned                                                             *)
C24_Witness ==
    /\ Inferred
    /\ ~infer_example
    /\ infer_value = [list |-> <<ObjectOf(<<[list |-> <<[int |-> 1]>>]>>)>>]
    /\ inferred.items.properties.dict[1][2].items = [type |-> "integer"]

----------------------------------------------------------------------------
(* Claims on the parameters and the pairs of the aggregated document *)

(* the operation has a parameter named id whose location is path *)
HasPathId(operation) ==
    LET ps == StoredParameters(operation)
    IN  \E a \in 1..Len(ps) : ps[a].name = SId /\ ps[a]["in"] = "path"

(* C25, as claimed: after every sequence of first-sight stores and repeat   *)
(* merges, every operation stored under a path that contains {id} has a     *)
(* parameter with name id and location path.                                *)
C25_PathIdParameterKept ==
    pc \in {"loop", "done"} =>
        \A o \in OperationsOf(paths) :
            OccursIn(IdPlaceholder, o[1]) => HasPathId(o[3])

(* the index sequences that are permutations of 1..n *)
Orderings(n) ==
    {f \in [1..n -> 1..n] : \A a, b \in 1..n : a # b => f[a] # f[b]}

(* <<path, method, set of parameter names>> of every operation *)
NameSets(pathMap) ==
    {<<o[1], o[2], Names(StoredParameters(o[3]))>> : o \in OperationsOf(pathMap)}

(* the union of the path and query parameter names of the accepted requests *)
(* of the pair                                                              *)
NamesOfPair(path, method) ==
    UNION {Names(r.path_params) \cup Names(r.query_params) :
              r \in {ParsedOf(k) :
                        k \in {j \in 1..Len(requests) :
                                  /\ Accepted(j)
                                  /\ ParsedOf(j).path = path
                                  /\ ParsedOf(j).method = method}}}

(* C26: the set of parameter names of every operation of the document is    *)
(* the union of the path and query parameter names of the accepted          *)
(* exchanges of its (path, method) pair, and the document of every          *)
(* permutation of the input has the same set for every operation.           *)
C26_ParameterNamesAreUnion ==
    pc = "done" =>
        /\ \A o \in OperationsOf(spec.paths) :
               Names(StoredParameters(o[3])) = NamesOfPair(o[1], o[2])
        /\ \A f \in Orderings(Len(requests)) :
               NameSets(generate_openapi_spec(
                            [k \in 1..Len(requests) |-> requests[f[k]]]).paths)
                   = NameSets(spec.paths)

(* a returned document for two exchanges of one pair, the second with a     *)
(* query parameter the first does not have                                  *)
C26_Witness ==
    /\ pc = "done"
    /\ requests = <<GetUser1, GetUser2Query>>
    /\ \E o \in OperationsOf(spec.paths) :
           Names(StoredParameters(o[3])) = {SId, <<"q">>}

(* the normalized path and the lower-cased method of a request *)
PairOf(e) == <<normalize_path(UrlOf(e).str).path, Lower(MethodOf(e).str)>>

(* C27: the (path, method) pairs of the returned document are exactly the   *)
(* normalized path and lower-cased method of the accepted exchanges, and    *)
(* every operation has a non-empty responses map.                           *)
C27_PairsAreThoseAccepted ==
    pc = "done" =>
        /\ {<<o[1], o[2]>> : o \in OperationsOf(spec.paths)}
               = {PairOf(requests[k]) : k \in {j \in 1..Len(requests) : Accepted(j)}}
        /\ \A o \in OperationsOf(spec.paths) : Len(o[3].responses.dict) > 0

(* a returned document for an accepted exchange without a response and a    *)
(* skipped one                                                              *)
C27_Witness ==
    /\ pc = "done"
    /\ requests = <<StaticScript, GetFile>>
    /\ Len(spec.paths.dict) = 1
    /\ Len(spec.paths.dict[1][2].dict[1][2].responses.dict) = 1

----------------------------------------------------------------------------
(* Claims on track_skill_usage *)

(* the sum of the context_saved values of the invocation records *)
RECURSIVE SumContextSaved(_)
SumContextSaved(invocations) ==
    IF Len(invocations) = 0 THEN 0
    ELSE (IF "context_saved" \in DOMAIN invocations[1]
          THEN invocations[1].context_saved ELSE 0)
             + SumContextSaved(Tail(invocations))

(* the counts of an entry agree with its invocation records *)
EntryAgrees(entry) ==
    /\ entry.total_invocations =
           entry.successful_invocations + entry.failed_invocations
    /\ entry.total_invocations = Len(entry.invocations)
    /\ entry.total_context_saved = SumContextSaved(entry.invocations)

(* the skills of the data file, none while there is no file *)
SavedSkills(file) == IF file = None THEN {} ELSE DOMAIN file.skills

(* a call that returns leaves every entry of the saved data in agreement    *)
(* with its records, keeps every entry and its first_used, and changes the  *)
(* entry of its own skill only                                              *)
C28_Step ==
    \A p \in Procs :
        (calling[p] # None /\ calling'[p] = None) =>
            /\ \A s \in SavedSkills(data_file') :
                   EntryAgrees(data_file'.skills[s])
            /\ calling[p].skill_name \in SavedSkills(data_file')
            /\ \A s \in SavedSkills(data_file) :
                   /\ s \in SavedSkills(data_file')
                   /\ data_file'.skills[s].first_used =
                          data_file.skills[s].first_used
                   /\ s # calling[p].skill_name =>
                          data_file'.skills[s] = data_file.skills[s]

(* C28: after any sequence of track_skill_usage calls run one after another *)
(* from no data file, every entry of the saved data has total_invocations = *)
(* successful_invocations + failed_invocations = the length of its          *)
(* invocations, total_context_saved = the sum of the context_saved of its   *)
(* invocations; first_used never changes once the entry exists, and a call  *)
(* leaves the entries of the other skills as they are.                      *)
C28_CountsAgreeWithInvocations == [][C28_Step]_vars

(* the data saved by a failed call on skill b with context saved, after a   *)
(* call on skill a                                                          *)
C28_Witness ==
    /\ Len(completed) = 2
    /\ data_file # None
    /\ DOMAIN data_file.skills = SkillNames
    /\ calling = <<None>>
    /\ data_file.skills[<<"b">>].total_invocations = 1
    /\ data_file.skills[<<"b">>].failed_invocations = 1
    /\ data_file.skills[<<"b">>].total_context_saved = 5
    /\ data_file.skills[<<"a">>].first_used < data_file.skills[<<"b">>].first_used

(* every process has made its calls *)
AllReturned == \A p \in Procs : remaining[p] = 0 /\ calling[p] = None

(* how many of the completed calls tracked the skill *)
CompletedOn(skill_name) ==
    Cardinality({k \in 1..Len(completed) : completed[k].skill_name = skill_name})

(* C29, as claimed: when two track_skill_usage calls of two processes have  *)
(* interleaved their load_data and save_data and both have returned, the    *)
(* data file records both: the total_invocations of every skill is the      *)
(* number of completed calls on it and the invocation record of every       *)
(* completed call is in the file.                                           *)
C29_NoInvocationLost ==
    AllReturned =>
        /\ \A s \in SkillNames :
               CompletedOn(s) > 0 =>
                   /\ s \in SavedSkills(data_file)
                   /\ data_file.skills[s].total_invocations = CompletedOn(s)
        /\ \A k \in 1..Len(completed) :
               /\ completed[k].skill_name \in SavedSkills(data_file)
               /\ \E a \in 1..Len(data_file.skills[completed[k].skill_name].invocations) :
                      data_file.skills[completed[k].skill_name].invocations[a]
                          = completed[k].invocation

----------------------------------------------------------------------------
(* Claims on ImageDownloader.download_image *)

(* the files that existed before the call *)
ExistingNames == {n \in DOMAIN directory : directory[n] = "old"}

(* the path of the sanitized file name *)
FirstPath == JoinDir(sanitize_filename(filename))

(* the k-th name of the claimed search: the sanitized name, then stem_1,    *)
(* stem_2, ... with the stem and the suffix of the sanitized name           *)
ClaimedName(k) ==
    IF k = 0 THEN FirstPath
    ELSE NumberedName(PathStem(FirstPath), k, PathSuffix(FirstPath))

(* the first name of the claimed search that did not exist *)
FirstFreeName ==
    ClaimedName(CHOOSE k \in 0..(Cardinality(ExistingNames) + 1) :
                    /\ ~(ClaimedName(k) = <<>> \/ ClaimedName(k) \in ExistingNames)
                    /\ \A j \in 0..(k - 1) :
                           ClaimedName(j) = <<>> \/ ClaimedName(j) \in ExistingNames)

(* no step changes or removes a file of the directory *)
KeepsExistingFiles ==
    \A n \in DOMAIN directory :
        n \in DOMAIN directory' /\ directory'[n] = directory[n]

(* C30, as claimed: download_image never writes over a file that existed    *)
(* when it chose its output path; when the sanitized file name exists it    *)
(* tries stem_1, stem_2, ... with the original stem and suffix and writes   *)
(* to the first name that does not exist; and the search ends for every     *)
(* finite directory.                                                        *)
C30_NeverOverwrites ==
    /\ [][KeepsExistingFiles]_vars
    /\ [](dpc = "written" => output_path = FirstFreeName)
    /\ <>(dpc = "written")

====
